---- MODULE Spec2Model ----
(***************************************************************************)
(* Forward/reply relay engine of the alias service (email_handler.py) and  *)
(* the dashboard's create-contact request (alias_detail.py).               *)
(*                                                                         *)
(* Every SMTP session handles one envelope (MailHandler.handle_DATA); the  *)
(* sessions run concurrently and share the stores.  A handler is cut into  *)
(* steps at its database accesses and at the blocking transport call, so   *)
(* that the interleavings of the check-then-create sequences are visible.  *)
(*                                                                         *)
(* Strings are sequences of tokens ("shop", "@", "sl.co"): the string      *)
(* operations of the code (startswith, in, find, slicing, lower)           *)
(* are computed on these sequences.                                        *)
(***************************************************************************)
EXTENDS Integers, Sequences, FiniteSets, TLC

VARIABLES
    aliases,    \* GenEmail rows (committed)
    mappings,   \* ForwardEmail rows (committed)
    logs,       \* ForwardEmailLog rows (committed), in commit order
    next_id,    \* the tables' id sequences
    ss,         \* the SMTP sessions: position and local variables of each handler
    dash,       \* the dashboard's create-contact request
    plan,       \* per user: does the plan in force permit new aliases
    custom_domains  \* CustomDomain rows (committed)

vars == <<aliases, mappings, logs, next_id, ss, dash, plan, custom_domains>>

\* ------------------------------------------------------------------ bounds

\* number of distinct values random_string can return
NumRandom == 2

\* ------------------------------------------------------- string operations

\* str.lower(), token by token
LowerTok ==
    ("ME" :> "me") @@ ("SHOP" :> "shop") @@ ("RA" :> "ra")

Lower(s) ==
    [i \in 1..Len(s) |-> IF s[i] \in DOMAIN LowerTok THEN LowerTok[s[i]] ELSE s[i]]

\* s.startswith(p)
StartsWith(s, p) ==
    Len(s) >= Len(p) /\ SubSeq(s, 1, Len(p)) = p

\* s.endswith(p)
EndsWith(s, p) ==
    Len(s) >= Len(p) /\ SubSeq(s, Len(s) - Len(p) + 1, Len(s)) = p

\* c in s
Has(s, c) ==
    \E i \in 1..Len(s) : s[i] = c

\* s.find(c) + 1: the 1-based position of the first c, 0 when there is none
Find(s, c) ==
    IF Has(s, c)
    THEN CHOOSE i \in 1..Len(s) : s[i] = c /\ \A j \in 1..(i - 1) : s[j] # c
    ELSE 0

\* sub occurs in s as a contiguous run
Contains(s, sub) ==
    \E i \in 1..(Len(s) - Len(sub) + 1) : SubSeq(s, i, i + Len(sub) - 1) = sub

\* s.replace("@", " at ")
ReplaceAt(s) ==
    [i \in 1..Len(s) |-> IF s[i] = "@" THEN " at " ELSE s[i]]

\* ------------------------------------------------------------ configuration

EMAIL_DOMAIN == <<"sl.co">>

ALIAS_DOMAINS == {<<"sl.co">>}

URL == "https://app.sl.co"

\* email_belongs_to_alias_domains(email)
email_belongs_to_alias_domains(email) ==
    \E d \in ALIAS_DOMAINS : EndsWith(email, <<"@">> \o d)

\* get_email_domain_part(email)
get_email_domain_part(email) ==
    SubSeq(email, Find(email, "@") + 1, Len(email))

\* a header value: a display part and an address part
Val(name, addr) == [name |-> name, addr |-> addr]

\* get_email_name(from_header), get_email_part(from_header)
get_email_name(v) == v.name

get_email_part(v) == v.addr

\* ------------------------------------------------------------- fixed tables

NoId == 0

\* User rows: the default mailbox and whether the plan permits new aliases
\* before the first envelope
Users ==
    [u1 |-> [email |-> <<"me", "@", "mb.ex">>, can_create_new_alias |-> TRUE],
     u2 |-> [email |-> <<"you", "@", "mb.ex">>, can_create_new_alias |-> FALSE]]

\* Mailbox rows
Mailboxes ==
    (1 :> [email |-> <<"box", "@", "mb.ex">>])

\* Directory rows
Directories ==
    {[id |-> 1, name |-> <<"sales">>, user_id |-> "u1"],
     [id |-> 2, name |-> <<"old">>, user_id |-> "u2"]}

\* CustomDomain rows before the first envelope
CustomDomains ==
    {[id |-> 1, domain |-> <<"dom.ex">>, user_id |-> "u1", catch_all |-> TRUE,
      dkim_verified |-> TRUE],
     [id |-> 2, domain |-> <<"old.ex">>, user_id |-> "u2", catch_all |-> TRUE,
      dkim_verified |-> FALSE],
     [id |-> 3, domain |-> <<"off.ex">>, user_id |-> "u1", catch_all |-> FALSE,
      dkim_verified |-> FALSE]}

\* -------------------------------------------------------------- the stores

\* the row the code holds when a lookup found nothing (None)
NoRow == [id |-> NoId]

\* the rows in the database before the first envelope
InitAliases ==
    {[id |-> 1, email |-> <<"shop", "@", "sl.co">>, user_id |-> "u1",
      mailbox_id |-> NoId, enabled |-> TRUE, directory_id |-> NoId,
      custom_domain_id |-> NoId, automatic_creation |-> FALSE],
     [id |-> 2, email |-> <<"off", "@", "sl.co">>, user_id |-> "u1",
      mailbox_id |-> 1, enabled |-> FALSE, directory_id |-> NoId,
      custom_domain_id |-> NoId, automatic_creation |-> FALSE],
     \* an alias whose domain is no longer a service or custom domain
     [id |-> 3, email |-> <<"x", "@", "gone.ex">>, user_id |-> "u1",
      mailbox_id |-> NoId, enabled |-> TRUE, directory_id |-> NoId,
      custom_domain_id |-> NoId, automatic_creation |-> FALSE],
     \* an alias of a custom domain that is not DKIM-verified, with a mailbox
     [id |-> 4, email |-> <<"a", "@", "off.ex">>, user_id |-> "u1",
      mailbox_id |-> 1, enabled |-> TRUE, directory_id |-> NoId,
      custom_domain_id |-> 3, automatic_creation |-> FALSE]}

\* GenEmail.get_by(email=...)
GenEmail_get_by(email) ==
    {a \in aliases : a.email = email}

\* GenEmail.get(id)
GenEmail_get(id) ==
    {a \in aliases : a.id = id}

\* Directory.get_by(name=...)
Directory_get_by(name) ==
    {d \in Directories : d.name = name}

\* CustomDomain.get_by(domain=...)
CustomDomain_get_by(domain) ==
    {c \in custom_domains : c.domain = domain}

\* ForwardEmail.get_by(gen_email_id=..., website_email=...)
ForwardEmail_get_by_pair(gen_email_id, website_email) ==
    {m \in mappings : m.gen_email_id = gen_email_id /\ m.website_email = website_email}

\* ForwardEmail.get_by(reply_email=...)
ForwardEmail_get_by_reply(reply_email) ==
    {m \in mappings : m.reply_email = reply_email}

\* User.can_create_new_alias()
can_create_new_alias(user_id) ==
    plan[user_id]

\* a store without the unique constraint on GenEmail.email
GenEmailUnchecked(email) ==
    TRUE

\* the unique constraint on GenEmail.email: may a row with this address be inserted
GenEmailUnique(email) ==
    GenEmail_get_by(email) = {}

\* a store without the unique constraint on ForwardEmail
ForwardEmailUnchecked(gen_email_id, website_email) ==
    TRUE

\* the unique constraint on ForwardEmail (gen_email_id, website_email)
ForwardEmailUnique(gen_email_id, website_email) ==
    ForwardEmail_get_by_pair(gen_email_id, website_email) = {}

\* the row GenEmail.create(...) inserts, with the columns' defaults
NewGenEmail(email, user_id, directory_id, custom_domain_id, automatic_creation) ==
    [id |-> next_id.alias, email |-> email, user_id |-> user_id,
     mailbox_id |-> NoId, enabled |-> TRUE, directory_id |-> directory_id,
     custom_domain_id |-> custom_domain_id,
     automatic_creation |-> automatic_creation]

\* the row ForwardEmail.create(...) inserts
NewForwardEmail(gen_email_id, website_email, website_from, reply_email) ==
    [id |-> next_id.fwd, gen_email_id |-> gen_email_id,
     website_email |-> website_email, website_from |-> website_from,
     reply_email |-> reply_email]

\* ------------------------------------------------------------- the messages

\* delete_header(msg, header)
delete_header(msg, header) ==
    [h \in DOMAIN msg \ {header} |-> msg[h]]

\* add_or_replace_header(msg, header, value)
add_or_replace_header(msg, header, value) ==
    [h \in DOMAIN msg \cup {header} |-> IF h = header THEN value ELSE msg[h]]

\* the values random_string returns
RandomStrings == {ToString(i) : i \in 1..NumRandom}

\* f"reply+{random_string(30)}@{EMAIL_DOMAIN}"
ForwardToken(r) == <<"reply", "+", r, "@">> \o EMAIL_DOMAIN

\* f"ra+{random_string(25)}@{EMAIL_DOMAIN}"
DashToken(r) == <<"ra", "+", r, "@">> \o EMAIL_DOMAIN

\* the correspondents' From headers
Froms ==
    {Val(<<"Jane Doe">>, <<"jane", "@", "biz.ex">>),
     Val(<<>>, <<"jane", "@", "biz.ex">>),
     Val(<<"Bob">>, <<"bob", "@", "biz.ex">>)}

\* the recipients of the forward envelopes
ForwardRcpts ==
    {<<"shop", "@", "sl.co">>, <<"SHOP", "@", "sl.co">>, <<"off", "@", "sl.co">>,
     <<"sales", "/", "x", "@", "sl.co">>, <<"old", "+", "x", "@", "sl.co">>,
     <<"any", "@", "dom.ex">>, <<"any", "@", "old.ex">>, <<"any", "@", "off.ex">>,
     <<"nobody", "@", "sl.co">>, <<"x", "@", "gone.ex">>,
     <<"a", "@", "off.ex">>}

\* the envelopes a correspondent's server submits
ForwardEnvelopes ==
    {[rcpt_tos |-> <<rcpt>>, mail_from |-> f.addr,
      content |-> ("From" :> f) @@ ("To" :> Val(<<>>, rcpt))
                  @@ ("Reply-To" :> Val(<<>>, f.addr))] :
        rcpt \in ForwardRcpts, f \in Froms}

\* the recipients of the reply envelopes
ReplyRcpts ==
    {ForwardToken(r) : r \in RandomStrings}
        \cup {DashToken("1"), <<"RA", "+", "1", "@">> \o EMAIL_DOMAIN,
              <<"reply", "+", "1", "@", "evil.ex">>}

\* the senders of the reply envelopes
ReplySenders ==
    {<<"me", "@", "mb.ex">>, <<"ME", "@", "mb.ex">>, <<"box", "@", "mb.ex">>,
     <<"eve", "@", "evil.ex">>}

\* the messages of the reply envelopes: one with the headers the sender's
\* provider adds and a body that quotes the address replied to, one without a
\* To header
ReplyContents(mail_from, rcpt) ==
    {("From" :> Val(<<"Me">>, mail_from)) @@ ("To" :> Val(<<>>, rcpt))
        @@ ("body" :> Val(<<"On Monday", "wrote:">>, Lower(rcpt)))
        @@ ("Reply-To" :> Val(<<>>, mail_from))
        @@ ("DKIM-Signature" :> Val(<<"d=mb.ex">>, <<>>))
        @@ ("Received-SPF" :> Val(<<"pass", "envelope-from=">>, mail_from))
        @@ ("Sender" :> Val(<<>>, mail_from)),
     ("From" :> Val(<<>>, mail_from))}

\* the envelopes a mailbox's server submits
ReplyEnvelopes ==
    UNION {{[rcpt_tos |-> <<rcpt>>, mail_from |-> mail_from, content |-> c] :
                c \in ReplyContents(mail_from, rcpt)} :
            rcpt \in ReplyRcpts, mail_from \in ReplySenders}

\* ------------------------------------------------------------ the sessions

Sessions == {"s1", "s2", "s3"}

\* a session before its envelope arrives
IdleSession ==
    [pc |-> "idle", pipeline |-> "",
     rcpt_tos |-> <<>>, mail_from |-> <<>>, content |-> <<>>,
     msg |-> <<>>,              \* the parsed message, rewritten in place
     gen_email |-> NoRow, forward_email |-> NoRow, reply_email |-> <<>>,
     on_the_fly |-> FALSE,
     forward_log |-> <<>>,      \* rows added to the session and not yet committed
     sent |-> <<>>,             \* the smtp.sendmail calls made
     signed |-> <<>>,           \* the add_dkim_signature calls made
     notifs |-> <<>>,           \* the notification emails sent
     created |-> {},            \* what this envelope inserted or rewrote
     exhausted |-> FALSE,       \* the token loop ended without a free token
     status |-> "", err |-> ""]

Init ==
    /\ aliases = InitAliases
    /\ mappings = {}
    /\ logs = <<>>
    /\ next_id = [alias |-> Cardinality(InitAliases) + 1, fwd |-> 1]
    /\ ss = [s \in Sessions |-> IdleSession]
    /\ dash = [pc |-> "idle", gen_email |-> NoRow, contact_email |-> Val(<<>>, <<>>),
               reply_email |-> <<>>, result |-> "",
               user |-> "", forward_email |-> NoRow]
    /\ plan = [u \in DOMAIN Users |-> Users[u].can_create_new_alias]
    /\ custom_domains = CustomDomains

\* the handler returns a status line
Return(s, rec, status) ==
    ss' = [ss EXCEPT ![s] = [rec EXCEPT !.pc = "done", !.status = status]]

\* an exception leaves the handler: handle_DATA catches nothing, the SMTP
\* library answers 500, and the rows not yet committed are dropped with the
\* session (shutdown_session)
Raise(s, rec, err) ==
    ss' = [ss EXCEPT ![s] = [rec EXCEPT !.pc = "done", !.status = "500",
                                        !.err = err, !.forward_log = <<>>]]

\* a faulty variant of the delivery target that ignores the alias's mailbox
MailboxEmailDefault(gen_email) ==
    Users[gen_email.user_id].email

\* gen_email.mailbox.email if gen_email.mailbox_id else gen_email.user.email
MailboxEmail(gen_email) ==
    IF gen_email.mailbox_id # NoId
    THEN Mailboxes[gen_email.mailbox_id].email
    ELSE Users[gen_email.user_id].email

\* a faulty variant of the classification that knows the "reply+" prefix only
IsReplyNewPrefixOnly(rcpt_to) ==
    StartsWith(rcpt_to, <<"reply", "+">>)

\* rcpt_to.startswith("reply+") or rcpt_to.startswith("ra+")
IsReply(rcpt_to) ==
    StartsWith(rcpt_to, <<"reply", "+">>) \/ StartsWith(rcpt_to, <<"ra", "+">>)

\* ------------------------------------------------------ the forward pipeline

\* handle_forward, GenEmail.get_by(email=alias)
ForwardLookup(s, env) ==
    LET alias == Lower(env.rcpt_tos[1])
        rec == [ss[s] EXCEPT !.pipeline = "forward", !.rcpt_tos = env.rcpt_tos,
                             !.mail_from = env.mail_from, !.content = env.content,
                             !.msg = env.content]
    IN /\ IF GenEmail_get_by(alias) # {}
          THEN \E g \in GenEmail_get_by(alias) :
                  ss' = [ss EXCEPT ![s] = [rec EXCEPT !.pc = "f_map", !.gen_email = g]]
          ELSE ss' = [ss EXCEPT ![s] = [rec EXCEPT !.pc = "f_dir"]]
       /\ UNCHANGED <<aliases, mappings, logs, next_id, dash, plan, custom_domains>>

\* the separator of a directory alias: "/" before "+" before "#"
DirectorySep(alias) ==
    IF Has(alias, "/") THEN "/" ELSE IF Has(alias, "+") THEN "+" ELSE "#"

\* alias[: alias.find(sep)]
DirectoryName(alias) ==
    SubSeq(alias, 1, Find(alias, DirectorySep(alias)) - 1)

\* a faulty variant of the directory alias that is not bound to the directory
DirectoryAliasUnbound(alias, directory) ==
    NewGenEmail(alias, directory.user_id, NoId, NoId, FALSE)

\* GenEmail.create(email=alias, user_id=directory.user_id,
\*                 directory_id=directory.id)
DirectoryAlias(alias, directory) ==
    NewGenEmail(alias, directory.user_id, directory.id, NoId, FALSE)

\* a faulty variant of the notification that names the directory, not the address
CannotCreateDirectoryAliasNamesDirectory(directory, alias) ==
    [to |-> Users[directory.user_id].email,
     kind |-> "cannot_create_directory_alias", alias |-> directory.name]

\* send_cannot_create_directory_alias(dir_user, alias, directory_name)
CannotCreateDirectoryAlias(directory, alias) ==
    [to |-> Users[directory.user_id].email,
     kind |-> "cannot_create_directory_alias", alias |-> alias]

\* a faulty variant of the entitlement test that uses the plan the owner had
\* when the engine started
DirUserCouldCreate(directory) ==
    Users[directory.user_id].can_create_new_alias

\* dir_user = directory.user; if dir_user.can_create_new_alias()
DirUserCanCreate(directory) ==
    can_create_new_alias(directory.user_id)

\* the alias belongs to a directory: directory/anything@EMAIL_DOMAIN
ForwardDirectory(s) ==
    LET alias == Lower(ss[s].rcpt_tos[1])
        rec == ss[s]
    IN /\ rec.pc = "f_dir"
       /\ UNCHANGED <<mappings, logs, dash, plan, custom_domains>>
       /\ IF /\ email_belongs_to_alias_domains(alias)
             /\ (Has(alias, "/") \/ Has(alias, "+") \/ Has(alias, "#"))
             /\ Directory_get_by(DirectoryName(alias)) # {}
          THEN \E directory \in Directory_get_by(DirectoryName(alias)) :
                 IF DirUserCanCreate(directory)
                 THEN LET g == DirectoryAlias(alias, directory)
                      IN IF GenEmailUnique(alias)
                         THEN /\ aliases' = aliases \cup {g}
                              /\ next_id' = [next_id EXCEPT !.alias = @ + 1]
                              /\ ss' = [ss EXCEPT ![s] =
                                         [rec EXCEPT !.pc = "f_map", !.gen_email = g,
                                                     !.on_the_fly = TRUE,
                                                     !.created = @ \cup {"alias"}]]
                         ELSE /\ Raise(s, rec, "IntegrityError")
                              /\ UNCHANGED <<aliases, next_id>>
                 ELSE /\ ss' = [ss EXCEPT ![s] =
                                 [rec EXCEPT !.pc = "f_catch",
                                     !.notifs = Append(@,
                                         CannotCreateDirectoryAlias(directory, alias))]]
                      /\ UNCHANGED <<aliases, next_id>>
          ELSE /\ ss' = [ss EXCEPT ![s] = [rec EXCEPT !.pc = "f_catch"]]
               /\ UNCHANGED <<aliases, next_id>>

\* a faulty variant of the catch-all alias that is not marked as created
\* automatically
CatchAllAliasManual(alias, custom_domain) ==
    NewGenEmail(alias, custom_domain.user_id, NoId, custom_domain.id, FALSE)

\* GenEmail.create(email=alias, user_id=custom_domain.user_id,
\*                 custom_domain_id=custom_domain.id, automatic_creation=True)
CatchAllAlias(alias, custom_domain) ==
    NewGenEmail(alias, custom_domain.user_id, NoId, custom_domain.id, TRUE)

\* send_cannot_create_domain_alias(domain_user, alias, alias_domain)
CannotCreateDomainAlias(custom_domain, alias) ==
    [to |-> Users[custom_domain.user_id].email,
     kind |-> "cannot_create_domain_alias", alias |-> alias]

\* a faulty variant of the catch-all test that ignores the catch_all flag
HasCatchAllAnyDomain(found) ==
    found # {}

\* if custom_domain and custom_domain.catch_all
HasCatchAll(found) ==
    \E c \in found : c.catch_all

\* domain_user = custom_domain.user; if domain_user.can_create_new_alias()
DomainUserCanCreate(custom_domain) ==
    can_create_new_alias(custom_domain.user_id)

\* the custom-domain catch-all, and "510 Email not exist"
ForwardCatchAll(s) ==
    LET alias == Lower(ss[s].rcpt_tos[1])
        alias_domain == get_email_domain_part(alias)
        rec == ss[s]
    IN /\ rec.pc = "f_catch"
       /\ UNCHANGED <<mappings, logs, dash, plan, custom_domains>>
       /\ IF HasCatchAll(CustomDomain_get_by(alias_domain))
          THEN \E custom_domain \in CustomDomain_get_by(alias_domain) :
                 IF DomainUserCanCreate(custom_domain)
                 THEN LET g == CatchAllAlias(alias, custom_domain)
                      IN IF GenEmailUnique(alias)
                         THEN /\ aliases' = aliases \cup {g}
                              /\ next_id' = [next_id EXCEPT !.alias = @ + 1]
                              /\ ss' = [ss EXCEPT ![s] =
                                         [rec EXCEPT !.pc = "f_map", !.gen_email = g,
                                                     !.on_the_fly = TRUE,
                                                     !.created = @ \cup {"alias"}]]
                         ELSE /\ Raise(s, rec, "IntegrityError")
                              /\ UNCHANGED <<aliases, next_id>>
                 ELSE /\ Return(s, [rec EXCEPT !.notifs = Append(@,
                                         CannotCreateDomainAlias(custom_domain, alias))],
                                "510")
                      /\ UNCHANGED <<aliases, next_id>>
          ELSE /\ Return(s, rec, "510")
               /\ UNCHANGED <<aliases, next_id>>

\* a faulty variant of the update that also clears the mapping's token
WithWebsiteFromNewToken(forward_email, from) ==
    [forward_email EXCEPT !.website_from = from,
                          !.reply_email = <<>>]

\* forward_email.website_from = msg["From"]
WithWebsiteFrom(forward_email, from) ==
    [forward_email EXCEPT !.website_from = from]

\* a faulty variant of the display-value test that rewrites it on every envelope
NeedsUpdateAlways(forward_email, from) ==
    TRUE

\* forward_email.website_from != msg["From"]
NeedsUpdate(forward_email, from) ==
    forward_email.website_from # from

\* ForwardEmail.get_by(gen_email_id, website_email), and the update of the
\* stored From header when it differs
ForwardGetMapping(s) ==
    LET rec == ss[s]
        website_email == get_email_part(rec.msg["From"])
        found == ForwardEmail_get_by_pair(rec.gen_email.id, website_email)
    IN /\ rec.pc = "f_map"
       /\ UNCHANGED <<aliases, logs, next_id, dash, plan, custom_domains>>
       /\ IF found # {}
          THEN \E forward_email \in found :
                 IF NeedsUpdate(forward_email, rec.msg["From"])
                 THEN LET fe == WithWebsiteFrom(forward_email, rec.msg["From"])
                      IN /\ mappings' = (mappings \ {forward_email}) \cup {fe}
                         /\ ss' = [ss EXCEPT ![s] =
                                    [rec EXCEPT !.pc = "f_send", !.forward_email = fe,
                                                !.created = @ \cup {"website_from"}]]
                 ELSE /\ ss' = [ss EXCEPT ![s] =
                                 [rec EXCEPT !.pc = "f_send",
                                             !.forward_email = forward_email]]
                      /\ UNCHANGED mappings
          ELSE /\ ss' = [ss EXCEPT ![s] = [rec EXCEPT !.pc = "f_token"]]
               /\ UNCHANGED mappings

\* for _ in range(1000): sample a reply_email, break when no mapping has it.
\* The loop ends with a token no mapping has, or, when every sample was taken,
\* with the last sample, which a mapping has.
ForwardGenToken(s) ==
    LET rec == ss[s]
    IN /\ rec.pc = "f_token"
       /\ \E r \in RandomStrings :
            ss' = [ss EXCEPT ![s] =
                    [rec EXCEPT !.pc = "f_create", !.reply_email = ForwardToken(r),
                                !.exhausted =
                                    (ForwardEmail_get_by_reply(ForwardToken(r)) # {})]]
       /\ UNCHANGED <<aliases, mappings, logs, next_id, dash, plan, custom_domains>>

\* ForwardEmail.create(...) and db.session.commit()
ForwardCreateMapping(s) ==
    LET rec == ss[s]
        website_email == get_email_part(rec.msg["From"])
        fe == NewForwardEmail(rec.gen_email.id, website_email, rec.msg["From"],
                              rec.reply_email)
    IN /\ rec.pc = "f_create"
       /\ UNCHANGED <<aliases, logs, dash, plan, custom_domains>>
       /\ IF ForwardEmailUnique(rec.gen_email.id, website_email)
          THEN /\ mappings' = mappings \cup {fe}
               /\ next_id' = [next_id EXCEPT !.fwd = @ + 1]
               /\ ss' = [ss EXCEPT ![s] =
                          [rec EXCEPT !.pc = "f_send", !.forward_email = fe,
                                      !.created = @ \cup {"mapping"}]]
          ELSE /\ Raise(s, rec, "IntegrityError")
               /\ UNCHANGED <<mappings, next_id>>

\* f"<{URL}/dashboard/unsubscribe/{gen_email.id}>"
UnsubscribeLink(gen_email_id) ==
    Val(<<"<", URL, "/dashboard/unsubscribe/", ToString(gen_email_id), ">">>, <<>>)

\* add_dkim_signature(msg, domain)
add_dkim_signature(msg, domain) ==
    add_or_replace_header(msg, "DKIM-Signature", Val(<<"d=">> \o domain, <<>>))

\* a faulty variant of the From header that puts " - " before every address
ForwardFromHeaderDash(from, reply_email) ==
    Val(get_email_name(from) \o <<" - ">> \o ReplaceAt(get_email_part(from)),
        reply_email)

\* the From header of a forwarded message
ForwardFromHeader(from, reply_email) ==
    Val(get_email_name(from)
            \o (IF get_email_name(from) = <<>> THEN <<>> ELSE <<" - ">>)
            \o ReplaceAt(get_email_part(from)),
        reply_email)

\* the header rewriting of the forward direction
ForwardTransform(msg, gen_email, forward_email) ==
    LET m1 == add_or_replace_header(msg, "X-SimpleLogin-Type", Val(<<"Forward">>, <<>>))
        m2 == delete_header(m1, "Reply-To")
        m3 == [m2 EXCEPT !["From"] =
                   ForwardFromHeader(msg["From"], forward_email.reply_email)]
        m4 == add_or_replace_header(m3, "List-Unsubscribe",
                                    UnsubscribeLink(gen_email.id))
        m5 == add_or_replace_header(m4, "List-Unsubscribe-Post",
                                    Val(<<"List-Unsubscribe=One-Click">>, <<>>))
    IN add_dkim_signature(m5, EMAIL_DOMAIN)

\* a faulty variant of the enabled test that forwards through every alias
ForwardEnabledAlways(gen_email) ==
    TRUE

\* if gen_email.enabled
ForwardEnabled(gen_email) ==
    gen_email.enabled

\* a faulty variant of the blocked mark that also marks the row as a reply
BlockedLogAsReply(log) ==
    [log EXCEPT !.blocked = TRUE, !.is_reply = TRUE]

\* forward_log.blocked = True
BlockedLog(log) ==
    [log EXCEPT !.blocked = TRUE]

\* ForwardEmailLog.create, then the rewriting and smtp.sendmail when the alias
\* is enabled, forward_log.blocked = True when it is not
ForwardDeliver(s) ==
    LET rec == ss[s]
        log == [forward_id |-> rec.forward_email.id, is_reply |-> FALSE,
                blocked |-> FALSE, by |-> s]
        out == ForwardTransform(rec.msg, rec.gen_email, rec.forward_email)
    IN /\ rec.pc = "f_send"
       /\ UNCHANGED <<aliases, mappings, logs, next_id, dash, plan, custom_domains>>
       /\ IF ForwardEnabled(rec.gen_email)
          THEN \/ ss' = [ss EXCEPT ![s] =
                          [rec EXCEPT !.pc = "f_commit", !.msg = out,
                              !.forward_log = <<log>>,
                              !.signed = Append(@, EMAIL_DOMAIN),
                              !.sent = Append(@,
                                  [mail_from |-> rec.forward_email.reply_email,
                                   rcpt_to |-> MailboxEmail(rec.gen_email),
                                   msg |-> out])]]
               \/ Raise(s, [rec EXCEPT !.msg = out], "SMTPException")
          ELSE ss' = [ss EXCEPT ![s] =
                       [rec EXCEPT !.pc = "f_commit",
                                   !.forward_log = <<BlockedLog(log)>>]]

\* a faulty variant of the last step of a forward that commits no log row
ForwardCommitNoLog(s) ==
    LET rec == ss[s]
    IN /\ rec.pc = "f_commit"
       /\ Return(s, [rec EXCEPT !.forward_log = <<>>], "250")
       /\ UNCHANGED <<aliases, mappings, logs, next_id, dash, plan, custom_domains>>

\* a faulty variant of the last step of a forward that removes the mapping of
\* a blocked message
ForwardCommitPrunes(s) ==
    LET rec == ss[s]
    IN /\ rec.pc = "f_commit"
       /\ logs' = logs \o rec.forward_log
       /\ mappings' = IF rec.forward_log[1].blocked
                      THEN {m \in mappings : m.id # rec.forward_email.id}
                      ELSE mappings
       /\ Return(s, [rec EXCEPT !.forward_log = <<>>], "250")
       /\ UNCHANGED <<aliases, next_id, dash, plan, custom_domains>>

\* db.session.commit() and "250 Message accepted for delivery"
ForwardCommit(s) ==
    LET rec == ss[s]
    IN /\ rec.pc = "f_commit"
       /\ logs' = logs \o rec.forward_log
       /\ Return(s, [rec EXCEPT !.forward_log = <<>>], "250")
       /\ UNCHANGED <<aliases, mappings, next_id, dash, plan, custom_domains>>

\* -------------------------------------------------------- the reply pipeline

\* a faulty variant of the lookup that tells the sender of a reply to an
\* unknown token that it may not use the address
ReplyLookupNotifies(s, env) ==
    LET reply_email == Lower(env.rcpt_tos[1])
        rec == [ss[s] EXCEPT !.pipeline = "reply", !.rcpt_tos = env.rcpt_tos,
                             !.mail_from = env.mail_from, !.content = env.content,
                             !.msg = env.content, !.reply_email = reply_email]
        found == ForwardEmail_get_by_reply(reply_email)
    IN /\ UNCHANGED <<aliases, mappings, logs, next_id, dash, plan, custom_domains>>
       /\ IF found = {}
          THEN Return(s, [rec EXCEPT !.notifs = <<[to |-> env.mail_from,
                                kind |-> "send-from-alias-from-unknown-sender",
                                alias |-> reply_email]>>], "550")
          ELSE \E forward_email \in found :
                 ss' = [ss EXCEPT ![s] =
                         [rec EXCEPT !.pc = "r_check", !.forward_email = forward_email]]

\* handle_reply: the domain of the reply address, ForwardEmail.get_by(reply_email)
ReplyLookup(s, env) ==
    LET reply_email == Lower(env.rcpt_tos[1])
        rec == [ss[s] EXCEPT !.pipeline = "reply", !.rcpt_tos = env.rcpt_tos,
                             !.mail_from = env.mail_from, !.content = env.content,
                             !.msg = env.content, !.reply_email = reply_email]
        found == ForwardEmail_get_by_reply(reply_email)
    IN /\ UNCHANGED <<aliases, mappings, logs, next_id, dash, plan, custom_domains>>
       /\ IF ~EndsWith(reply_email, EMAIL_DOMAIN)
          THEN Return(s, rec, "550")
          ELSE IF found = {}
          THEN Return(s, rec, "550")
          ELSE \E forward_email \in found :
                 ss' = [ss EXCEPT ![s] =
                         [rec EXCEPT !.pc = "r_check", !.forward_email = forward_email]]

\* alias[alias.find("@") + 1 :]
AliasDomain(alias) ==
    SubSeq(alias, Find(alias, "@") + 1, Len(alias))

\* a faulty variant of the sender check that compares the addresses as written
SenderMismatchExact(mail_from, mailbox_email) ==
    mail_from # mailbox_email

\* a faulty variant of the alias test that accepts every alias
AliasUnknownNever(alias) ==
    FALSE

\* not email_belongs_to_alias_domains(alias) and
\* not CustomDomain.get_by(domain=alias_domain)
AliasUnknown(alias) ==
    /\ ~email_belongs_to_alias_domains(alias)
    /\ CustomDomain_get_by(AliasDomain(alias)) = {}

\* envelope.mail_from.lower() != mailbox_email.lower()
SenderMismatch(mail_from, mailbox_email) ==
    Lower(mail_from) # Lower(mailbox_email)

\* a faulty variant of the reply rewriting that leaves the To header as received
ReplyTransformKeepsTo(msg, alias, forward_email) ==
    LET m1 == delete_header(msg, "DKIM-Signature")
        m2 == [m1 EXCEPT !["From"] = Val(<<>>, alias)]
        m3 == delete_header(m2, "Reply-To")
    IN delete_header(m3, "Received-SPF")

\* a faulty variant of the notices that tells the owner only
UnauthorizedNoticesOwnerOnly(mailbox_email, mail_from, alias, reply_email) ==
    <<[to |-> mailbox_email, kind |-> "reply-must-use-personal-email",
       alias |-> alias]>>

\* the two send_email calls of an unauthorized reply: to the mailbox, then to
\* the envelope sender
UnauthorizedNotices(mailbox_email, mail_from, alias, reply_email) ==
    <<[to |-> mailbox_email, kind |-> "reply-must-use-personal-email",
       alias |-> alias],
      [to |-> mail_from, kind |-> "send-from-alias-from-unknown-sender",
       alias |-> reply_email]>>

\* a faulty variant of the reply rewriting that keeps the Received-SPF header
ReplyTransformKeepsSPF(msg, alias, forward_email) ==
    LET m1 == delete_header(msg, "DKIM-Signature")
        m2 == [m1 EXCEPT !["From"] = Val(<<>>, alias)]
        m3 == delete_header(m2, "Reply-To")
    IN [m3 EXCEPT !["To"] = Val(<<>>, forward_email.website_email)]

\* the header rewriting of the reply direction, up to the signing step;
\* msg.replace_header raises KeyError when the message has no such header
ReplyTransform(msg, alias, forward_email) ==
    LET m1 == delete_header(msg, "DKIM-Signature")
        m2 == [m1 EXCEPT !["From"] = Val(<<>>, alias)]
        m3 == delete_header(m2, "Reply-To")
        m4 == [m3 EXCEPT !["To"] = Val(<<>>, forward_email.website_email)]
        m5 == add_or_replace_header(m4, "List-Unsubscribe",
                                    UnsubscribeLink(forward_email.gen_email_id))
        m6 == add_or_replace_header(m5, "List-Unsubscribe-Post",
                                    Val(<<"List-Unsubscribe=One-Click">>, <<>>))
    IN delete_header(m6, "Received-SPF")

\* the alias of the mapping, the check of its domain, the check of the sender,
\* and the rewriting of the headers
ReplyCheck(s) ==
    LET rec == ss[s]
        forward_email == rec.forward_email
    IN /\ rec.pc = "r_check"
       /\ UNCHANGED <<aliases, mappings, logs, next_id, dash, plan, custom_domains>>
       /\ \E gen_email \in GenEmail_get(forward_email.gen_email_id) :
            LET alias == gen_email.email
                mailbox_email == MailboxEmail(gen_email)
                r1 == [rec EXCEPT !.gen_email = gen_email]
            IN IF AliasUnknown(alias)
               THEN Return(s, r1, "550")
               ELSE IF SenderMismatch(rec.mail_from, mailbox_email)
               THEN Return(s,
                        [r1 EXCEPT !.notifs = @ \o
                            UnauthorizedNotices(mailbox_email, rec.mail_from,
                                                alias, rec.reply_email)],
                        "550")
               ELSE IF "From" \notin DOMAIN rec.msg
               THEN Raise(s, [r1 EXCEPT !.msg = delete_header(rec.msg, "DKIM-Signature")],
                          "KeyError")
               ELSE IF "To" \notin DOMAIN rec.msg
               THEN Raise(s, [r1 EXCEPT !.msg =
                                delete_header(
                                    [delete_header(rec.msg, "DKIM-Signature")
                                        EXCEPT !["From"] = Val(<<>>, alias)],
                                    "Reply-To")],
                          "KeyError")
               ELSE ss' = [ss EXCEPT ![s] =
                            [r1 EXCEPT !.pc = "r_send",
                                       !.msg = ReplyTransform(rec.msg, alias,
                                                              forward_email)]]

\* the signing domain of a reply: the alias domain when it is one of
\* ALIAS_DOMAINS or a custom domain with dkim_verified, none otherwise
ReplySigned(alias_domain) ==
    IF alias_domain \in ALIAS_DOMAINS
    THEN <<alias_domain>>
    ELSE IF \E c \in CustomDomain_get_by(alias_domain) : c.dkim_verified
    THEN <<alias_domain>>
    ELSE <<>>

\* msg_raw.replace(reply_email.encode(), alias.encode()): the value the
\* expression computes
msg_raw_replace(msg, reply_email, alias) ==
    [h \in DOMAIN msg |->
        IF msg[h].addr = reply_email THEN [msg[h] EXCEPT !.addr = alias] ELSE msg[h]]

\* the signature, msg.as_string().encode() and smtp.sendmail; the result of
\* msg_raw.replace(reply_email, alias) is not kept
ReplySend(s) ==
    LET rec == ss[s]
        alias == rec.gen_email.email
        alias_domain == AliasDomain(alias)
        signed == ReplySigned(alias_domain)
        out == IF signed = <<>> THEN rec.msg ELSE add_dkim_signature(rec.msg, alias_domain)
        \* bytes.replace returns a new object, which the statement drops
        dropped == msg_raw_replace(out, rec.reply_email, alias)
    IN /\ rec.pc = "r_send"
       /\ UNCHANGED <<aliases, mappings, logs, next_id, dash, plan, custom_domains>>
       /\ IF alias_domain \notin ALIAS_DOMAINS /\ CustomDomain_get_by(alias_domain) = {}
          THEN Raise(s, rec, "AttributeError")
          ELSE \/ ss' = [ss EXCEPT ![s] =
                          [rec EXCEPT !.pc = "r_commit", !.msg = out,
                              !.signed = @ \o signed,
                              !.sent = Append(@,
                                  [mail_from |-> alias,
                                   rcpt_to |-> rec.forward_email.website_email,
                                   msg |-> out])]]
               \/ Raise(s, [rec EXCEPT !.msg = out], "SMTPException")

\* a faulty variant of the reply's last step that writes the log row before
\* the transport call and never makes the call
ReplyCommitEarly(s) ==
    LET rec == ss[s]
    IN /\ rec.pc = "r_send"
       /\ logs' = Append(logs, [forward_id |-> rec.forward_email.id, is_reply |-> TRUE,
                                blocked |-> FALSE, by |-> s])
       /\ Return(s, rec, "250")
       /\ UNCHANGED <<aliases, mappings, next_id, dash, plan, custom_domains>>

\* a faulty variant of the reply's last step that marks the log row of a
\* reply through a disabled alias as blocked
ReplyCommitBlocksDisabled(s) ==
    LET rec == ss[s]
    IN /\ rec.pc = "r_commit"
       /\ logs' = Append(logs, [forward_id |-> rec.forward_email.id, is_reply |-> TRUE,
                                blocked |-> ~rec.gen_email.enabled, by |-> s])
       /\ Return(s, rec, "250")
       /\ UNCHANGED <<aliases, mappings, next_id, dash, plan, custom_domains>>

\* ForwardEmailLog.create(forward_id, is_reply=True), db.session.commit(), 250
ReplyCommit(s) ==
    LET rec == ss[s]
    IN /\ rec.pc = "r_commit"
       /\ logs' = Append(logs, [forward_id |-> rec.forward_email.id, is_reply |-> TRUE,
                                blocked |-> FALSE, by |-> s])
       /\ Return(s, rec, "250")
       /\ UNCHANGED <<aliases, mappings, next_id, dash, plan, custom_domains>>

\* the sessions in the order in which their envelopes arrive
SessionOrder == <<"s1", "s2", "s3">>

\* a faulty variant of handle_DATA that lets the last recipient decide the
\* pipeline
ReceiveLast(s, envelopes) ==
    /\ ss[s].pc = "idle"
    /\ \A i, j \in 1..Len(SessionOrder) :
         (i < j /\ SessionOrder[j] = s) => ss[SessionOrder[i]].pc # "idle"
    /\ \E env \in envelopes :
         IF IsReply(Lower(env.rcpt_tos[Len(env.rcpt_tos)]))
         THEN ReplyLookup(s, env)
         ELSE ForwardLookup(s, env)

\* MailHandler.handle_DATA: the first recipient, lower-cased, decides the pipeline
Receive(s, envelopes) ==
    /\ ss[s].pc = "idle"
    /\ \A i, j \in 1..Len(SessionOrder) :
         (i < j /\ SessionOrder[j] = s) => ss[SessionOrder[i]].pc # "idle"
    /\ \E env \in envelopes :
         IF IsReply(Lower(env.rcpt_tos[1]))
         THEN ReplyLookup(s, env)
         ELSE ForwardLookup(s, env)

HandleDATA(s) ==
    Receive(s, ForwardEnvelopes \cup ReplyEnvelopes)

\* ------------------------------------------- the dashboard's create-contact

current_user == "u1"

\* alias_contact_manager, form-name "create": the sanity checks, the token loop
\* and the check that the contact is not already added
DashCreateCheck ==
    /\ dash.pc = "idle"
    /\ UNCHANGED <<aliases, mappings, logs, next_id, ss, plan, custom_domains>>
    /\ \E gen_email \in aliases, contact_email \in Froms, r \in RandomStrings :
         LET website_email == get_email_part(contact_email)
             d == [dash EXCEPT !.gen_email = gen_email, !.contact_email = contact_email,
                               !.reply_email = DashToken(r)]
         IN IF gen_email.user_id # current_user
            THEN dash' = [d EXCEPT !.pc = "done", !.result = "no access"]
            ELSE IF ForwardEmail_get_by_pair(gen_email.id, website_email) # {}
            THEN dash' = [d EXCEPT !.pc = "done", !.result = "already added"]
            ELSE dash' = [d EXCEPT !.pc = "d_create"]

\* ForwardEmail.create(...) and db.session.commit() of the dashboard
DashCreate ==
    LET website_email == get_email_part(dash.contact_email)
        fe == NewForwardEmail(dash.gen_email.id, website_email, dash.contact_email,
                              dash.reply_email)
    IN /\ dash.pc = "d_create"
       /\ UNCHANGED <<aliases, logs, ss, plan, custom_domains>>
       /\ IF ForwardEmailUnique(dash.gen_email.id, website_email)
          THEN /\ mappings' = mappings \cup {fe}
               /\ next_id' = [next_id EXCEPT !.fwd = @ + 1]
               /\ dash' = [dash EXCEPT !.pc = "done", !.result = "created"]
          ELSE /\ dash' = [dash EXCEPT !.pc = "done", !.result = "IntegrityError"]
               /\ UNCHANGED <<mappings, next_id>>

\* ------------------------------------------- the dashboard's delete-contact

\* ForwardEmail.get(id)
ForwardEmail_get(id) ==
    {m \in mappings : m.id = id}

\* ForwardEmail.delete(id): the row goes, and with it the log rows that
\* refer to it
ForwardEmail_delete(id) ==
    /\ mappings' = {m \in mappings : m.id # id}
    /\ logs' = SelectSeq(logs, LAMBDA l : l.forward_id # id)

\* a faulty variant of the delete request that does not test that the
\* mapping belongs to the alias of the page
DashDeleteAnyAlias ==
    /\ dash.pc = "idle"
    /\ UNCHANGED <<aliases, next_id, ss, plan, custom_domains>>
    /\ \E user \in DOMAIN Users,
          alias_id \in {g.id : g \in aliases} \cup {NoId},
          forward_email_id \in {m.id : m \in mappings} \cup {NoId} :
         LET d == [dash EXCEPT !.pc = "done", !.user = user]
         IN IF GenEmail_get(alias_id) = {}
            THEN /\ dash' = [d EXCEPT !.result = "no access"]
                 /\ UNCHANGED <<mappings, logs>>
            ELSE \E gen_email \in GenEmail_get(alias_id) :
                   IF gen_email.user_id # user
                   THEN /\ dash' = [d EXCEPT !.gen_email = gen_email,
                                            !.result = "no access"]
                        /\ UNCHANGED <<mappings, logs>>
                   ELSE IF ForwardEmail_get(forward_email_id) = {}
                   THEN /\ dash' = [d EXCEPT !.gen_email = gen_email,
                                            !.result = "unknown error"]
                        /\ UNCHANGED <<mappings, logs>>
                   ELSE \E forward_email \in ForwardEmail_get(forward_email_id) :
                          /\ ForwardEmail_delete(forward_email_id)
                          /\ dash' = [d EXCEPT !.gen_email = gen_email,
                                               !.forward_email = forward_email,
                                               !.result = "deleted"]

\* alias_contact_manager, form-name "delete", requested by the logged-in
\* user for the page of the alias alias_id and the mapping forward_email_id
DashDelete ==
    /\ dash.pc = "idle"
    /\ UNCHANGED <<aliases, next_id, ss, plan, custom_domains>>
    /\ \E user \in DOMAIN Users,
          alias_id \in {g.id : g \in aliases} \cup {NoId},
          forward_email_id \in {m.id : m \in mappings} \cup {NoId} :
         LET d == [dash EXCEPT !.pc = "done", !.user = user]
         IN IF GenEmail_get(alias_id) = {}
            THEN /\ dash' = [d EXCEPT !.result = "no access"]
                 /\ UNCHANGED <<mappings, logs>>
            ELSE \E gen_email \in GenEmail_get(alias_id) :
                   IF gen_email.user_id # user
                   THEN /\ dash' = [d EXCEPT !.gen_email = gen_email,
                                            !.result = "no access"]
                        /\ UNCHANGED <<mappings, logs>>
                   ELSE IF ForwardEmail_get(forward_email_id) = {}
                   THEN /\ dash' = [d EXCEPT !.gen_email = gen_email,
                                            !.result = "unknown error"]
                        /\ UNCHANGED <<mappings, logs>>
                   ELSE \E forward_email \in ForwardEmail_get(forward_email_id) :
                          IF forward_email.gen_email_id # gen_email.id
                          THEN /\ dash' = [d EXCEPT !.gen_email = gen_email,
                                                   !.result = "cannot delete"]
                               /\ UNCHANGED <<mappings, logs>>
                          ELSE /\ ForwardEmail_delete(forward_email_id)
                               /\ dash' = [d EXCEPT !.gen_email = gen_email,
                                                    !.forward_email = forward_email,
                                                    !.result = "deleted"]

\* ------------------------------------------------- the dashboard's counters

\* alias_log: the log rows joined with the mappings of the alias
AliasLogBase(gen_email) ==
    {i \in 1..Len(logs) :
        \E m \in mappings : m.id = logs[i].forward_id /\ m.gen_email_id = gen_email.id}

\* total = base.count()
total(gen_email) ==
    Cardinality(AliasLogBase(gen_email))

\* base.filter(is_reply == False).filter(blocked == False).count()
email_forwarded(gen_email) ==
    Cardinality({i \in AliasLogBase(gen_email) : ~logs[i].is_reply /\ ~logs[i].blocked})

\* base.filter(is_reply == True).count()
email_replied(gen_email) ==
    Cardinality({i \in AliasLogBase(gen_email) : logs[i].is_reply})

\* base.filter(blocked == True).count()
email_blocked(gen_email) ==
    Cardinality({i \in AliasLogBase(gen_email) : logs[i].blocked})

\* ------------------------------------------------------- the specifications

\* the steps of a handler after its first
Continue(s) ==
    \/ ForwardDirectory(s)
    \/ ForwardCatchAll(s)
    \/ ForwardGetMapping(s)
    \/ ForwardGenToken(s)
    \/ ForwardCreateMapping(s)
    \/ ForwardDeliver(s)
    \/ ForwardCommit(s)
    \/ ReplyCheck(s)
    \/ ReplySend(s)
    \/ ReplyCommit(s)

\* the sessions that overlap
ConcurrentSessions == {"s1", "s2"}

Next ==
    \E s \in ConcurrentSessions : HandleDATA(s) \/ Continue(s)

\* the relay engine: two sessions run concurrently
Spec == Init /\ [][Next]_vars

\* the envelopes of the sequential runs: the forwards to the existing aliases,
\* to a directory address and to a catch-all address, and the replies to the
\* service's domain
SeqEnvelopes ==
    {e \in ForwardEnvelopes :
        e.rcpt_tos[1] \in {<<"shop", "@", "sl.co">>, <<"off", "@", "sl.co">>,
                           <<"sales", "/", "x", "@", "sl.co">>,
                           <<"any", "@", "dom.ex">>}}
        \cup {e \in ReplyEnvelopes :
                /\ e.mail_from # <<"ME", "@", "mb.ex">>
                /\ e.rcpt_tos[1] = Lower(e.rcpt_tos[1])
                /\ EndsWith(e.rcpt_tos[1], EMAIL_DOMAIN)}

\* an envelope arrives when no other is being processed
HandleDATASeq(s) ==
    /\ \A o \in Sessions \ {s} : ss[o].pc \in {"idle", "done"}
    /\ Receive(s, SeqEnvelopes)

NextSeq ==
    \E s \in Sessions : HandleDATASeq(s) \/ Continue(s)

\* the relay engine: three envelopes processed one after another
SpecSeq == Init /\ [][NextSeq]_vars

\* the envelopes to the aliases the dashboard's user manages or gets on the
\* fly, and the owner's replies
DashEnvelopes ==
    {e \in ForwardEnvelopes :
        /\ e.rcpt_tos[1] \in {<<"shop", "@", "sl.co">>,
                              <<"sales", "/", "x", "@", "sl.co">>,
                              <<"any", "@", "dom.ex">>}
        /\ e.content["From"].name # <<>>
        /\ e.rcpt_tos[1] # <<"shop", "@", "sl.co">>
                => e.content["From"].name = <<"Bob">>}
        \cup {e \in ReplyEnvelopes :
                /\ e.mail_from = <<"me", "@", "mb.ex">>
                /\ "To" \in DOMAIN e.content
                /\ e.rcpt_tos[1] \in {ForwardToken("1"),
                                      <<"RA", "+", "1", "@">> \o EMAIL_DOMAIN}}

HandleDATADash(s) ==
    Receive(s, DashEnvelopes)

NextDash ==
    \/ \E s \in ConcurrentSessions : HandleDATADash(s) \/ Continue(s)
    \/ DashCreateCheck
    \/ DashCreate

\* two sessions and the dashboard's create-contact request run concurrently
SpecDash == Init /\ [][NextDash]_vars

\* the plan of a user changes (billing, outside the engine)
PlanChange ==
    /\ \E u \in DOMAIN Users : plan' = [plan EXCEPT ![u] = ~@]
    /\ UNCHANGED <<aliases, mappings, logs, next_id, ss, dash, custom_domains>>

\* forward envelopes to new addresses under one directory and on custom domains
PlanEnvelopes ==
    {[rcpt_tos |-> <<rcpt>>, mail_from |-> <<"bob", "@", "biz.ex">>,
      content |-> ("From" :> Val(<<"Bob">>, <<"bob", "@", "biz.ex">>))
                  @@ ("To" :> Val(<<>>, rcpt))] :
        rcpt \in {<<"sales", "/", "x", "@", "sl.co">>,
                  <<"sales", "/", "y", "@", "sl.co">>,
                  <<"any", "@", "dom.ex">>, <<"other", "@", "dom.ex">>,
                  <<"any", "@", "off.ex">>}}

HandleDATAPlan(s) ==
    /\ \A o \in Sessions \ {s} : ss[o].pc \in {"idle", "done"}
    /\ Receive(s, PlanEnvelopes)

NextPlan ==
    \/ PlanChange
    \/ \E s \in Sessions :
         \/ HandleDATAPlan(s)
         \/ ForwardDirectory(s)
         \/ ForwardCatchAll(s)
         \/ ForwardGetMapping(s)
         \/ ForwardGenToken(s)
         \/ ForwardCreateMapping(s)
         \/ ForwardDeliver(s)
         \/ ForwardCommit(s)

\* forward envelopes processed one after another while the owners' plans change
SpecPlan == Init /\ [][NextPlan]_vars

\* a user removes a custom domain in the dashboard while the engine runs
RemoveCustomDomain ==
    /\ \E c \in custom_domains : custom_domains' = custom_domains \ {c}
    /\ UNCHANGED <<aliases, mappings, logs, next_id, ss, dash, plan>>

\* forwards to aliases on a service domain and on custom domains, and the
\* replies of their mailboxes
DomainEnvelopes ==
    {e \in ForwardEnvelopes :
        /\ e.rcpt_tos[1] \in {<<"shop", "@", "sl.co">>, <<"a", "@", "off.ex">>,
                              <<"any", "@", "dom.ex">>}
        /\ e.content["From"].name = <<"Bob">>}
        \cup {e \in ReplyEnvelopes :
                /\ e.mail_from \in {<<"me", "@", "mb.ex">>, <<"box", "@", "mb.ex">>}
                /\ e.rcpt_tos[1] \in {ForwardToken(r) : r \in RandomStrings}
                /\ "To" \in DOMAIN e.content}

HandleDATADomain(s) ==
    /\ \A o \in Sessions \ {s} : ss[o].pc \in {"idle", "done"}
    /\ Receive(s, DomainEnvelopes)

NextDomain ==
    \/ RemoveCustomDomain
    \/ \E s \in Sessions :
         \/ HandleDATADomain(s)
         \/ ForwardDirectory(s)
         \/ ForwardCatchAll(s)
         \/ ForwardGetMapping(s)
         \/ ForwardGenToken(s)
         \/ ForwardCreateMapping(s)
         \/ ForwardDeliver(s)
         \/ ForwardCommit(s)
         \/ ReplyCheck(s)
         \/ ReplySend(s)
         \/ ReplyCommit(s)

\* envelopes processed one after another while custom domains are removed
SpecDomain == Init /\ [][NextDomain]_vars

\* the recipients that follow the first in an envelope with two
SecondRcpts ==
    {<<"shop", "@", "sl.co">>, <<"nobody", "@", "sl.co">>, ForwardToken("1")}

\* envelopes with two recipients: a forward or a reply envelope with one more
\* recipient after its own
MultiEnvelopes ==
    LET base == {e \in ForwardEnvelopes :
                    /\ e.rcpt_tos[1] \in {<<"shop", "@", "sl.co">>,
                                          <<"nobody", "@", "sl.co">>,
                                          <<"sales", "/", "x", "@", "sl.co">>,
                                          <<"any", "@", "dom.ex">>}
                    /\ e.content["From"].name = <<"Bob">>}
                    \cup {e \in ReplyEnvelopes :
                            /\ e.mail_from = <<"me", "@", "mb.ex">>
                            /\ e.rcpt_tos[1] \in {ForwardToken(r) : r \in RandomStrings}
                            /\ "To" \in DOMAIN e.content}
    IN {[e EXCEPT !.rcpt_tos = @ \o <<second>>] :
            e \in base, second \in SecondRcpts}

HandleDATAMulti(s) ==
    /\ \A o \in Sessions \ {s} : ss[o].pc \in {"idle", "done"}
    /\ Receive(s, MultiEnvelopes)

NextMulti ==
    \E s \in Sessions : HandleDATAMulti(s) \/ Continue(s)

\* envelopes with two recipients, processed one after another
SpecMulti == Init /\ [][NextMulti]_vars

\* forwards of two correspondents to two aliases of one user, and the
\* replies of that user
DeleteEnvelopes ==
    {e \in ForwardEnvelopes :
        /\ e.rcpt_tos[1] \in {<<"shop", "@", "sl.co">>, <<"x", "@", "gone.ex">>}
        /\ e.content["From"].name # <<>>}
        \cup {e \in ReplyEnvelopes :
                /\ e.mail_from = <<"me", "@", "mb.ex">>
                /\ e.rcpt_tos[1] \in {ForwardToken(r) : r \in RandomStrings}
                /\ "To" \in DOMAIN e.content}

HandleDATADelete(s) ==
    /\ \A o \in Sessions \ {s} : ss[o].pc \in {"idle", "done"}
    /\ Receive(s, DeleteEnvelopes)

\* the delete request is served when no envelope is being processed
DashDeleteBetween ==
    /\ \A s \in Sessions : ss[s].pc \in {"idle", "done"}
    /\ DashDelete

NextDelete ==
    \/ DashDeleteBetween
    \/ \E s \in Sessions :
         \/ HandleDATADelete(s)
         \/ ForwardGetMapping(s)
         \/ ForwardGenToken(s)
         \/ ForwardCreateMapping(s)
         \/ ForwardDeliver(s)
         \/ ForwardCommit(s)
         \/ ReplyCheck(s)
         \/ ReplySend(s)
         \/ ReplyCommit(s)

\* envelopes processed one after another, and one delete request of the
\* dashboard between two of them
SpecDelete == Init /\ [][NextDelete]_vars

\* ------------------------------------------------------------------ claims

\* the session has returned its status
Done(s) == ss[s].pc = "done"

\* the two addresses are equal when letter case is ignored
SameIgnoringCase(a, b) == Lower(a) = Lower(b)

\* the alias address is on a service domain or on a registered custom domain
AliasRecognized(alias) ==
    \/ email_belongs_to_alias_domains(alias)
    \/ \E c \in CustomDomains : EndsWith(alias, <<"@">> \o c.domain)

\* the reply sessions that have resolved the alias of their mapping
ResolvedReplies ==
    {s \in Sessions : ss[s].pipeline = "reply" /\ ss[s].gen_email # NoRow}

\* C1: a reply whose envelope sender differs, case ignored, from the authorized
\* mailbox of the mapping's alias ends with 550, with no header rewritten and
\* no transport or signer call; a sender that differs only in letter case is
\* not rejected by the sender check and gets no notification.
C1_UnauthorizedReplyRejected ==
    \A s \in ResolvedReplies :
        LET r == ss[s]
        IN IF SameIgnoringCase(r.mail_from, MailboxEmail(r.gen_email))
           THEN /\ r.notifs = <<>>
                /\ (r.status = "550" => ~AliasRecognized(r.gen_email.email))
           ELSE /\ Done(s)
                /\ r.status = "550"
                /\ r.sent = <<>>
                /\ r.signed = <<>>
                /\ r.msg = r.content

\* C1 witness: a reply from a stranger has been rejected
C1_Witness ==
    \E s \in ResolvedReplies :
        /\ Done(s)
        /\ ~SameIgnoringCase(ss[s].mail_from, MailboxEmail(ss[s].gen_email))
        /\ ss[s].status = "550"

\* a header value shows the address, in any letter case
Shows(v, addr) ==
    \/ Contains(Lower(v.name), Lower(addr))
    \/ Contains(Lower(v.addr), Lower(addr))

\* C2: every message the reply pipeline hands to the transport has the alias
\* address as envelope sender and no header that shows the mailbox address.
C2_ReplyNeverLeaksMailbox ==
    \A s \in ResolvedReplies :
        \A i \in 1..Len(ss[s].sent) :
            LET call == ss[s].sent[i]
            IN /\ call.mail_from = ss[s].gen_email.email
               /\ \A h \in DOMAIN call.msg :
                    ~Shows(call.msg[h], MailboxEmail(ss[s].gen_email))

\* the committed log rows of the envelope of session s
LogsBy(s) ==
    {i \in 1..Len(logs) : logs[i].by = s}

\* the forward sessions that resolved a disabled alias and have returned
DisabledForwards ==
    {s \in Sessions : /\ ss[s].pipeline = "forward"
                      /\ Done(s)
                      /\ ss[s].gen_email # NoRow
                      /\ ~ss[s].gen_email.enabled}

Pos(s) == CHOOSE i \in 1..Len(SessionOrder) : SessionOrder[i] = s

\* the forward sessions that have returned 250
ForwardedOk ==
    {s \in Sessions : ss[s].pipeline = "forward" /\ Done(s) /\ ss[s].status = "250"}

\* C4, in every state: after forward envelopes from C to alias A, processed one
\* after another, exactly one mapping exists for (A, C), and the envelope that
\* created the mapping did not also rewrite its display value.
C4_OneMappingPerPair ==
    \A s \in ForwardedOk :
        /\ Cardinality({m \in mappings :
                /\ m.gen_email_id = ss[s].gen_email.id
                /\ m.website_email = ss[s].content["From"].addr}) = 1
        /\ ~({"mapping", "website_from"} \subseteq ss[s].created)

\* C4, in every step: a mapping keeps its reply token, its alias and its
\* correspondent address, and an envelope rewrites the display value only when
\* its From header differs from the stored value, storing that From header.
C4_StepKeepsToken ==
    /\ \A m \in mappings :
         \E m2 \in mappings' :
            /\ m2.id = m.id
            /\ m2.reply_email = m.reply_email
            /\ m2.gen_email_id = m.gen_email_id
            /\ m2.website_email = m.website_email
    /\ \A s \in Sessions :
         ("website_from" \in ss'[s].created /\ "website_from" \notin ss[s].created)
            => /\ \E m \in mappings :
                    /\ m.id = ss'[s].forward_email.id
                    /\ m.website_from # ss[s].content["From"]
               /\ \E m2 \in mappings' :
                    /\ m2.id = ss'[s].forward_email.id
                    /\ m2.website_from = ss[s].content["From"]
    /\ \A m \in mappings :
         \A m2 \in mappings' :
            (m2.id = m.id /\ m2.website_from # m.website_from)
                => \E s \in Sessions :
                      /\ "website_from" \in ss'[s].created
                      /\ "website_from" \notin ss[s].created

\* C4: one mapping per (alias, correspondent), whose token never changes and
\* whose display value is rewritten only by an envelope with a different From.
C4_MappingStable ==
    []C4_OneMappingPerPair /\ [][C4_StepKeepsToken]_vars

\* C4 witness: two envelopes from one correspondent to one alias, the second
\* with another display name, have been forwarded; the second rewrote the
\* display value of the mapping the first created.
C4_Witness ==
    \E s, u \in ForwardedOk :
        /\ Pos(s) < Pos(u)
        /\ ss[s].gen_email.id = ss[u].gen_email.id
        /\ "mapping" \in ss[s].created
        /\ "website_from" \in ss[u].created
        /\ ss[u].forward_email.reply_email = ss[s].forward_email.reply_email

\* C5: at most one mapping per (alias id, correspondent address).
C5_PairUnique ==
    \A m1, m2 \in mappings :
        (m1.gen_email_id = m2.gen_email_id /\ m1.website_email = m2.website_email)
            => m1.id = m2.id

\* C5 witness: a forward envelope and the dashboard's request both found no
\* mapping for the pair; the dashboard created it first and the envelope's
\* insert was refused.
C5_Witness ==
    \E s \in Sessions :
        /\ ss[s].err = "IntegrityError"
        /\ dash.result = "created"
        /\ dash.gen_email.id = ss[s].gen_email.id
        /\ dash.contact_email.addr = ss[s].content["From"].addr

\* C6: no two mappings share a reply token, as long as every token loop ended
\* with a token that no mapping had when it was sampled.
C6_TokensUnique ==
    (\A s \in Sessions : ~ss[s].exhausted)
        => \A m1, m2 \in mappings :
              m1.reply_email = m2.reply_email => m1.id = m2.id

\* C7: no two aliases have the same address.
C7_AliasAddressUnique ==
    \A a1, a2 \in aliases :
        a1.email = a2.email => a1.id = a2.id

\* C7 witness: two envelopes to one new directory or catch-all address both
\* found no alias; one created it and the insert of the other was refused.
C7_Witness ==
    \E s, u \in Sessions :
        /\ s # u
        /\ "alias" \in ss[s].created
        /\ ss[u].pipeline = "forward"
        /\ ss[u].err = "IntegrityError"
        /\ ss[u].gen_email = NoRow
        /\ Lower(ss[u].rcpt_tos[1]) = ss[s].gen_email.email

\* the forward f and the later reply r of a round trip: f went through an
\* enabled alias, r is addressed to the token of f's mapping, a token no other
\* mapping has, comes from the alias's mailbox with a message that has From and
\* To headers, and the transport accepted it
RoundTrip(f, r) ==
    /\ Pos(f) < Pos(r)
    /\ f \in ForwardedOk
    /\ ss[f].gen_email.enabled
    /\ ss[r].pipeline = "reply"
    /\ Done(r)
    /\ Lower(ss[r].rcpt_tos[1]) = ss[f].forward_email.reply_email
    /\ Cardinality({m \in mappings :
            m.reply_email = ss[f].forward_email.reply_email}) = 1
    /\ SameIgnoringCase(ss[r].mail_from, MailboxEmail(ss[f].gen_email))
    /\ {"From", "To"} \subseteq DOMAIN ss[r].content
    /\ ss[r].err # "SMTPException"

IsDirectoryAddress(a, d) ==
    /\ \E dom \in ALIAS_DOMAINS : EndsWith(a, <<"@">> \o dom)
    /\ \E i \in 2..Len(a) :
         /\ a[i] \in {"/", "+", "#"}
         /\ SubSeq(a, 1, i - 1) = d.name

\* the envelopes, already received, that came before that of s for address a
EarlierTo(s, a) ==
    {e \in Sessions : /\ Pos(e) < Pos(s)
                      /\ ss[e].pipeline # ""
                      /\ Lower(ss[e].rcpt_tos[1]) = a}

DeniedOwners(a) ==
    {d.user_id : d \in {x \in Directories :
                    IsDirectoryAddress(a, x) /\ ~Users[x.user_id].can_create_new_alias}}
        \cup {c.user_id : c \in {x \in CustomDomains :
                    /\ EndsWith(a, <<"@">> \o x.domain)
                    /\ x.catch_all
                    /\ ~Users[x.user_id].can_create_new_alias}}

\* the forward sessions whose provisioning the owner's plan blocked
DeniedForwards ==
    {s \in Sessions : /\ ss[s].pipeline = "forward"
                      /\ Done(s)
                      /\ DeniedOwners(Lower(ss[s].rcpt_tos[1])) # {}}

\* C10: a forward envelope whose provisioning is blocked by the owner's plan
\* ends with a permanent rejection, the owner is sent one notification that
\* names the address, and no alias is created.
C10_EntitlementDenied ==
    \A s \in DeniedForwards :
        LET a == Lower(ss[s].rcpt_tos[1])
        IN /\ ss[s].status = "510"
           /\ Len(ss[s].notifs) = 1
           /\ ss[s].notifs[1].alias = a
           /\ \E u \in DeniedOwners(a) : ss[s].notifs[1].to = Users[u].email
           /\ "alias" \notin ss[s].created
           /\ ~\E g \in aliases : g.email = a
           /\ ss[s].sent = <<>>

\* C10 witness: an envelope to an address of a directory whose owner's plan
\* lapsed has been rejected
C10_Witness ==
    \E s \in DeniedForwards :
        /\ ss[s].notifs # <<>>
        /\ ss[s].notifs[1].kind = "cannot_create_directory_alias"

\* the transport calls of the forward sessions: <<session, index>>
ForwardCalls ==
    {c \in Sessions \X (1..1) :
        ss[c[1]].pipeline = "forward" /\ c[2] <= Len(ss[c[1]].sent)}

\* 'N - local at domain <T>', or 'local at domain <T>' when N is empty, for the
\* received From header from and the reply token T
ExpectedFrom(from, T) ==
    LET place == <<from.addr[1], " at ", from.addr[3]>>
    IN IF from.name = <<>>
       THEN [name |-> place, addr |-> T]
       ELSE [name |-> from.name \o <<" - ">> \o place, addr |-> T]

Received == {s \in Sessions : ss[s].pipeline # ""}

\* the lower-cased first recipient begins with "reply+" or "ra+"
HasReplyPrefix(s) ==
    LET a == Lower(ss[s].rcpt_tos[1])
    IN Len(a) >= 2 /\ a[1] \in {"reply", "ra"} /\ a[2] = "+"

\* the outcome of a reply that resolved the mapping m of the alias g, stated
\* without the token: rejected when the alias is not recognized or the sender
\* is not the mailbox, failed when From or To is missing, otherwise one
\* transport call from the alias to the correspondent, or a transport failure
ReplyOutcome(s, m, g) ==
    LET r == ss[s]
    IN IF ~AliasRecognized(g.email)
          \/ ~SameIgnoringCase(r.mail_from, MailboxEmail(g))
       THEN r.status = "550" /\ r.sent = <<>>
       ELSE IF ~({"From", "To"} \subseteq DOMAIN r.content)
       THEN r.status = "500" /\ r.sent = <<>>
       ELSE \/ r.err = "SMTPException" /\ r.sent = <<>>
            \/ /\ r.status = "250"
               /\ Len(r.sent) = 1
               /\ r.sent[1].mail_from = g.email
               /\ r.sent[1].rcpt_to = m.website_email
               /\ r.sent[1].msg["From"] = Val(<<>>, g.email)
               /\ r.sent[1].msg["To"] = Val(<<>>, m.website_email)
               /\ \A h \in DOMAIN r.sent[1].msg \cap {"Sender", "Subject"} :
                    r.sent[1].msg[h] = r.content[h]

\* C12: an envelope goes to the reply pipeline exactly when its lower-cased
\* first recipient begins with "reply+" or "ra+", to the forward pipeline
\* otherwise, and the outcome of a reply that resolved a mapping is the same
\* function of the mapping and the envelope for both prefixes.
C12_PrefixesHonoredAlike ==
    /\ \A s \in Received :
         /\ (ss[s].pipeline = "reply") <=> HasReplyPrefix(s)
         /\ (ss[s].pipeline = "forward") <=> ~HasReplyPrefix(s)
    /\ \A s \in Received :
         (HasReplyPrefix(s) /\ Done(s) /\ ss[s].forward_email # NoRow)
            => \E m \in mappings, g \in aliases :
                  /\ m.reply_email = Lower(ss[s].rcpt_tos[1])
                  /\ m.id = ss[s].forward_email.id
                  /\ g.id = m.gen_email_id
                  /\ ReplyOutcome(s, m, g)

\* C12 witness: a reply to an upper-case "RA+" address of a mapping the
\* dashboard created has been delivered
C12_Witness ==
    \E s \in Received :
        /\ ss[s].rcpt_tos[1][1] = "RA"
        /\ ss[s].status = "250"
        /\ ss[s].sent # <<>>
        /\ dash.result = "created"

\* the address is no alias, has no directory of the store before a separator
\* and is on no custom domain with catch-all
UnknownAddress(a) ==
    /\ ~\E g \in aliases : g.email = a
    /\ ~\E d \in Directories : IsDirectoryAddress(a, d)
    /\ ~\E c \in CustomDomains : c.catch_all /\ EndsWith(a, <<"@">> \o c.domain)

\* the forward sessions whose recipient is such an address
UnknownForwards ==
    {s \in Sessions : /\ ss[s].pipeline = "forward"
                      /\ UnknownAddress(Lower(ss[s].rcpt_tos[1]))}

\* C13, in every state: a forward envelope to an unknown address that has
\* returned got 510, and it created nothing, notified nobody, sent nothing.
C13_Rejected ==
    \A s \in UnknownForwards :
        /\ Done(s) => ss[s].status = "510"
        /\ ss[s].created = {}
        /\ ss[s].notifs = <<>>
        /\ ss[s].sent = <<>>
        /\ ss[s].signed = <<>>
        /\ ss[s].forward_log = <<>>
        /\ LogsBy(s) = {}
        /\ ss[s].gen_email = NoRow
        /\ ss[s].forward_email = NoRow

\* C13, in every step: a step of such an envelope changes no store.
C13_StepLeavesStores ==
    \A s \in Sessions :
        (ss'[s] # ss[s] /\ ss'[s].pipeline = "forward"
            /\ UnknownAddress(Lower(ss'[s].rcpt_tos[1])))
            => UNCHANGED <<aliases, mappings, logs, next_id>>

\* C13: a forward envelope whose recipient is no alias, matches no directory
\* and is on no catch-all domain is rejected with 510 and changes no store,
\* sends no notification and makes no transport call.
C13_UnknownAliasRejected ==
    []C13_Rejected /\ [][C13_StepLeavesStores]_vars

\* C13 witness: envelopes to an address on the service's domain and to an
\* address on a custom domain without catch-all have been rejected
C13_Witness ==
    \E s, u \in UnknownForwards :
        /\ Done(s) /\ Done(u)
        /\ ss[s].rcpt_tos[1] = <<"nobody", "@", "sl.co">>
        /\ ss[u].rcpt_tos[1] = <<"any", "@", "off.ex">>

\* the stores
stores == <<aliases, mappings, logs, next_id>>

\* in this step session s receives a reply envelope whose recipient does not
\* end with the service's domain or is the token of no mapping
ReceivesUnknownReply(s) ==
    /\ ss[s].pc = "idle"
    /\ ss'[s].pipeline = "reply"
    /\ LET a == Lower(ss'[s].rcpt_tos[1])
       IN \/ SubSeq(a, Len(a) - Len(EMAIL_DOMAIN) + 1, Len(a)) # EMAIL_DOMAIN
          \/ ~\E m \in mappings : m.reply_email = a

\* C14, in every step: such an envelope is answered 550 at once, with no store
\* changed, no notification and no transport or signer call, and a session
\* that has returned does nothing more.
C14_StepRejects ==
    \A s \in Sessions :
        /\ ReceivesUnknownReply(s)
              => /\ ss'[s].pc = "done"
                 /\ ss'[s].status = "550"
                 /\ ss'[s].notifs = <<>>
                 /\ ss'[s].sent = <<>>
                 /\ ss'[s].signed = <<>>
                 /\ ss'[s].created = {}
                 /\ ss'[s].forward_log = <<>>
                 /\ UNCHANGED stores
        /\ ss[s].pc = "done" => ss'[s] = ss[s]

\* C14: a reply envelope whose recipient does not end with the service's
\* domain, or is the reply token of no mapping, is rejected with 550 and has
\* no side effect.
C14_UnknownReplyRejected ==
    [][C14_StepRejects]_vars

\* C14 witness: a reply to an address on another domain and a reply to a
\* token that no mapping has have been rejected
C14_Witness ==
    \E s, u \in Received :
        /\ ss[s].pipeline = "reply" /\ ss[u].pipeline = "reply"
        /\ ss[s].status = "550" /\ ss[u].status = "550"
        /\ ss[s].rcpt_tos[1] = <<"reply", "+", "1", "@", "evil.ex">>
        /\ ss[u].rcpt_tos[1] = ForwardToken("1")
        /\ ss[u].forward_email = NoRow

\* the reply sessions whose token resolved to a mapping of an alias that is
\* neither on a service domain nor on a registered custom domain
UnrecognizedReplies ==
    {s \in Received :
        /\ ss[s].pipeline = "reply"
        /\ \E m \in mappings, g \in aliases :
              /\ m.reply_email = Lower(ss[s].rcpt_tos[1])
              /\ m.id = ss[s].forward_email.id
              /\ g.id = m.gen_email_id
              /\ ~AliasRecognized(g.email)}

\* C15: a reply whose mapping's alias is on no service domain and on no
\* registered custom domain is rejected with 550 before the sender check: no
\* notification, no transport or signer call, no header rewritten, no log row.
C15_UnrecognizedAliasRejected ==
    \A s \in UnrecognizedReplies :
        /\ ss[s].pc \in {"r_check", "done"}
        /\ Done(s) => ss[s].status = "550"
        /\ ss[s].notifs = <<>>
        /\ ss[s].sent = <<>>
        /\ ss[s].signed = <<>>
        /\ ss[s].msg = ss[s].content
        /\ LogsBy(s) = {}

\* C15 witness: such a reply, from a stranger, has been rejected
C15_Witness ==
    \E s \in UnrecognizedReplies :
        /\ Done(s)
        /\ ss[s].mail_from = <<"eve", "@", "evil.ex">>

\* the replies that reached the sender check with an envelope sender that is
\* not the authorized mailbox of the alias
UnauthorizedReplies ==
    {s \in ResolvedReplies :
        /\ AliasRecognized(ss[s].gen_email.email)
        /\ ~SameIgnoringCase(ss[s].mail_from, MailboxEmail(ss[s].gen_email))}

\* C16, in every state: an unauthorized reply has sent exactly two
\* notifications, the first to the authorized mailbox and the second to the
\* envelope sender, and has no log row.
C16_TwoNotices ==
    \A s \in UnauthorizedReplies :
        /\ Len(ss[s].notifs) = 2
        /\ ss[s].notifs[1].to = MailboxEmail(ss[s].gen_email)
        /\ ss[s].notifs[2].to = ss[s].mail_from
        /\ LogsBy(s) = {}
        /\ ss[s].created = {}
        /\ ss[s].sent = <<>>

\* C16, in every step: a step of an unauthorized reply changes no store.
C16_StepLeavesStores ==
    \A s \in Sessions :
        (ss'[s] # ss[s] /\ ss'[s].pipeline = "reply"
            /\ ss'[s].gen_email # NoRow
            /\ AliasRecognized(ss'[s].gen_email.email)
            /\ ~SameIgnoringCase(ss'[s].mail_from, MailboxEmail(ss'[s].gen_email)))
            => UNCHANGED stores

\* C16: an unauthorized reply produces exactly two notifications, one to the
\* alias's authorized mailbox and one to the envelope sender, creates no log
\* row and changes no alias and no mapping.
C16_UnauthorizedNotifications ==
    []C16_TwoNotices /\ [][C16_StepLeavesStores]_vars

\* C16 witness: a stranger's reply to the token of an alias with a mailbox of
\* its own has been answered with the two notices
C16_Witness ==
    \E s \in UnauthorizedReplies :
        /\ Done(s)
        /\ ss[s].mail_from = <<"eve", "@", "evil.ex">>
        /\ ss[s].gen_email.mailbox_id # NoId
        /\ Len(ss[s].notifs) = 2

\* the SMTP status codes of the temporary-failure class
TemporaryStatus == {"421", "450", "451", "452"}

\* C17: an envelope whose outbound transport call failed is answered with a
\* temporary rejection (4xx), in the forward and in the reply pipeline.
C17_TransportFailureTemporary ==
    \A s \in Received :
        ss[s].err = "SMTPException" => ss[s].status \in TemporaryStatus

\* the forward sessions that have ended, whatever the outcome
EndedForwards ==
    {s \in Received : ss[s].pipeline = "forward" /\ Done(s)}

\* C18: when the handling of a forward envelope has ended, every write it
\* made is committed together with its log row or not at all: an alias or a
\* mapping it created, or a display value it rewrote, comes with a log row of
\* that envelope for the mapping.
C18_AtomicEnvelope ==
    \A s \in EndedForwards :
        /\ "alias" \in ss[s].created
              => \/ ~\E g \in aliases : g.id = ss[s].gen_email.id
                 \/ LogsBy(s) # {}
        /\ ss[s].created \cap {"mapping", "website_from"} # {}
              => \/ ~\E m \in mappings : m.id = ss[s].forward_email.id
                 \/ \E i \in LogsBy(s) : logs[i].forward_id = ss[s].forward_email.id

\* C19: no forward envelope fails on a uniqueness violation of the store: the
\* envelope that lost the race for an alias or a mapping goes on with the
\* existing row.
C19_RetriesOnConflict ==
    \A s \in Received :
        ss[s].pipeline = "forward" => ss[s].err # "IntegrityError"

\* C20: an envelope whose token loop ended without a free token creates no
\* mapping, forwards nothing and is answered with a temporary rejection.
C20_ExhaustionIsFault ==
    \A s \in Received :
        ss[s].exhausted
            => /\ "mapping" \notin ss[s].created
               /\ ss[s].sent = <<>>
               /\ Done(s) => ss[s].status \in TemporaryStatus

\* the transport calls of the reply sessions: <<session, index>>
ReplyCalls ==
    {c \in Sessions \X (1..1) :
        ss[c[1]].pipeline = "reply" /\ c[2] <= Len(ss[c[1]].sent)}

\* C21: no part of a message the reply pipeline hands to the transport shows
\* the reply-token address the envelope was sent to.
C21_NoTokenInReply ==
    \A c \in ReplyCalls :
        \A h \in DOMAIN ss[c[1]].sent[c[2]].msg :
            ~Shows(ss[c[1]].sent[c[2]].msg[h], Lower(ss[c[1]].rcpt_tos[1]))

\* C22: a message the reply pipeline hands to the transport has no Reply-To
\* and no Received-SPF header, and its DKIM-Signature header, if it has one,
\* is the one the relay's signing step added for the alias's domain, not the
\* one the incoming message carried.
C22_ReplyHeadersRemoved ==
    \A c \in ReplyCalls :
        LET r == ss[c[1]]
            out == r.sent[c[2]].msg
            a == r.gen_email.email
        IN /\ "Reply-To" \notin DOMAIN out
           /\ "Received-SPF" \notin DOMAIN out
           /\ "DKIM-Signature" \in DOMAIN out
                => /\ r.signed # <<>>
                   /\ out["DKIM-Signature"] =
                        Val(<<"d=">> \o SubSeq(a, Len(a), Len(a)), <<>>)
                   /\ "DKIM-Signature" \in DOMAIN r.content
                        => out["DKIM-Signature"] # r.content["DKIM-Signature"]

\* C22 witness: a reply whose incoming message had the three headers has been
\* sent with the relay's own signature
C22_Witness ==
    \E c \in ReplyCalls :
        /\ {"Reply-To", "Received-SPF", "DKIM-Signature"}
                \subseteq DOMAIN ss[c[1]].content
        /\ "DKIM-Signature" \in DOMAIN ss[c[1]].sent[c[2]].msg

\* the delivery target of the alias g: its own mailbox if it has one, the
\* default email of its user otherwise
DeliveryTarget(g) ==
    IF g.mailbox_id = NoId THEN Users[g.user_id].email
    ELSE Mailboxes[g.mailbox_id].email

C24_LoggedOnlyWhenSent ==
    /\ \A s \in Received :
         /\ \A i \in LogsBy(s) :
               ~logs[i].blocked => Len(ss[s].sent) = 1 /\ ss[s].err = ""
         /\ ss[s].err = "SMTPException" => LogsBy(s) = {}
    /\ \A s, u \in Received :
         (/\ Pos(s) < Pos(u)
          /\ ss[s].rcpt_tos = ss[u].rcpt_tos
          /\ ss[s].mail_from = ss[u].mail_from
          /\ ss[s].content = ss[u].content
          /\ ss[s].err = "SMTPException"
          /\ Done(u) /\ ss[u].status = "250")
            => Cardinality(LogsBy(s) \cup LogsBy(u)) = 1

\* C24, in every step: a log row that is not blocked is committed by an
\* envelope whose transport call had returned before the step.
C24_StepLogsAfterCall ==
    \A i \in (Len(logs) + 1)..Len(logs') :
        ~logs'[i].blocked => ss[logs'[i].by].sent # <<>>

\* C24: in both pipelines a log row with blocked = false is committed only
\* after the envelope's transport call has returned successfully, and not at
\* all when the call failed.
C24_LogAfterTransport ==
    []C24_LoggedOnlyWhenSent /\ [][C24_StepLogsAfterCall]_vars

\* C24 witness: the transport call of a forward envelope and that of a reply
\* envelope failed, and the retry of the forward envelope was delivered
C24_Witness ==
    \E s, u, v \in Received :
        /\ Pos(s) < Pos(u)
        /\ ss[s].pipeline = "forward"
        /\ ss[s].rcpt_tos = ss[u].rcpt_tos
        /\ ss[s].content = ss[u].content
        /\ ss[s].err = "SMTPException"
        /\ ss[u].status = "250"
        /\ ss[u].sent # <<>>
        /\ ss[v].pipeline = "reply"
        /\ ss[v].err = "SMTPException"

\* session s takes a step at position pc
StepAt(s, pc) == ss[s].pc = pc /\ ss'[s] # ss[s]

\* in this step session s creates the alias a for the user u
CreatesAlias(s, a, u) ==
    /\ "alias" \in ss'[s].created
    /\ \E g \in aliases' \ aliases : g.email = a /\ g.user_id = u
    /\ ss'[s].notifs = ss[s].notifs

\* in this step session s creates no alias and sends the user u one notice
\* that names the address a
DeniesAlias(s, a, u) ==
    /\ aliases' = aliases
    /\ "alias" \notin ss'[s].created
    /\ Len(ss'[s].notifs) = Len(ss[s].notifs) + 1
    /\ ss'[s].notifs[Len(ss'[s].notifs)].to = Users[u].email
    /\ ss'[s].notifs[Len(ss'[s].notifs)].alias = a

\* C25, in every step: a provisioning attempt for an address of a directory
\* or of a catch-all domain creates the alias when the owner's plan in force
\* at that step permits it, and denies and notifies when it does not.
C25_StepReadsPlan ==
    \A s \in Sessions :
        LET a == Lower(ss[s].rcpt_tos[1])
        IN /\ StepAt(s, "f_dir")
                => \A d \in Directories :
                      IsDirectoryAddress(a, d)
                          => IF plan[d.user_id] THEN CreatesAlias(s, a, d.user_id)
                             ELSE DeniesAlias(s, a, d.user_id)
           /\ StepAt(s, "f_catch")
                => \A c \in custom_domains :
                      (c.catch_all /\ EndsWith(a, <<"@">> \o c.domain))
                          => IF plan[c.user_id] THEN CreatesAlias(s, a, c.user_id)
                             ELSE DeniesAlias(s, a, c.user_id)

\* C25: the owner's entitlement is read at each provisioning attempt: the
\* outcome of every envelope reflects the plan in force when it is processed.
C25_EntitlementNotCached ==
    [][C25_StepReadsPlan]_vars

\* C25 witness: of two envelopes to two new addresses under one directory the
\* first was denied and the second, after the plan changed, got its alias,
\* and a third to a catch-all domain was denied after the plan changed back
C25_Witness ==
    \E s, u, v \in Received :
        /\ Pos(s) < Pos(u) /\ Pos(u) < Pos(v)
        /\ ss[s].rcpt_tos[1][1] = "sales" /\ ss[u].rcpt_tos[1][1] = "sales"
        /\ ss[s].rcpt_tos # ss[u].rcpt_tos
        /\ ss[s].status = "510" /\ ss[s].notifs # <<>>
        /\ "alias" \in ss[u].created
        /\ ss[v].rcpt_tos[1] = <<"any", "@", "dom.ex">>
        /\ ss[v].status = "510" /\ ss[v].notifs # <<>>

\* the rejection statuses
RejectStatus == {"500", "510", "550"}

\* the committed log rows stay as they are, new ones come after them
LogsKept ==
    /\ Len(logs') >= Len(logs)
    /\ SubSeq(logs', 1, Len(logs)) = logs

\* C26, in every state: an envelope answered 250 has committed exactly one
\* log row, for the mapping it used and with is_reply set exactly when it is
\* a reply; an envelope answered with a rejection has committed none.
C26_OneLogPerAccept ==
    \A s \in Received :
        Done(s) =>
            /\ ss[s].status = "250"
                 => /\ Cardinality(LogsBy(s)) = 1
                    /\ \A i \in LogsBy(s) :
                         /\ logs[i].forward_id = ss[s].forward_email.id
                         /\ \E m \in mappings : m.id = logs[i].forward_id
                         /\ logs[i].is_reply = (ss[s].pipeline = "reply")
            /\ ss[s].status \in RejectStatus => LogsBy(s) = {}

\* C26: one log row per accepted envelope, none per rejected envelope, and no
\* step changes a log row that is already committed.
C26_LogPerEnvelope ==
    []C26_OneLogPerAccept /\ [][LogsKept]_vars

\* C26 witness: an accepted forward and an accepted reply, each with its one
\* log row, and before them a rejected envelope with none
C26_Witness ==
    \E s, u, v \in Received :
        /\ Done(s) /\ Done(u) /\ Done(v)
        /\ ss[s].status \in RejectStatus
        /\ ss[u].pipeline = "forward" /\ ss[u].status = "250"
        /\ ss[v].pipeline = "reply" /\ ss[v].status = "250"
        /\ Len(logs) = 2

\* C27, in every step: no alias, no mapping and no log row goes away, and a
\* step of a reply leaves the aliases and the mappings as they are and adds
\* at most one log row.
C27_StepOnlyGrows ==
    /\ aliases \subseteq aliases'
    /\ \A m \in mappings : \E n \in mappings' : n.id = m.id
    /\ LogsKept
    /\ \A s \in Sessions :
         (ss'[s] # ss[s] /\ ss'[s].pipeline = "reply")
             => /\ aliases' = aliases
                /\ mappings' = mappings
                /\ Len(logs') <= Len(logs) + 1

\* C27: the relay never deletes an alias, a mapping or a log row, and the
\* reply pipeline writes nothing but one log row.
C27_NeverDeletes ==
    [][C27_StepOnlyGrows]_vars

\* C27 witness: a forward created an alias and a mapping, a blocked forward
\* and an accepted reply followed
C27_Witness ==
    /\ Cardinality(aliases) > Cardinality(InitAliases)
    /\ mappings # {}
    /\ \E i, j \in 1..Len(logs) : logs[i].blocked /\ logs[j].is_reply

\* C28, in every step: an alias bound to a custom domain is created only by
\* the catch-all step of an envelope for which no directory alias was created,
\* for the recipient address, whose domain part is a registered custom domain
\* with catch-all enabled and an owner entitled in that step; it belongs to
\* that owner, is bound to that domain and is marked as created automatically.
\* A recipient on a registered custom domain without catch-all is answered 510
\* with no alias created and no notice sent.
C28_StepCatchAll ==
    \A s \in Sessions :
        LET a == Lower(ss[s].rcpt_tos[1])
        IN /\ (ss'[s] # ss[s] /\ ss[s].pc # "f_catch")
                => \A g \in aliases' \ aliases : g.custom_domain_id = NoId
           /\ StepAt(s, "f_catch")
                => /\ "alias" \notin ss[s].created
                   /\ \A g \in aliases' \ aliases :
                        /\ g.email = a
                        /\ g.automatic_creation
                        /\ g.directory_id = NoId
                        /\ \E c \in custom_domains :
                             /\ c.domain = get_email_domain_part(a)
                             /\ c.catch_all
                             /\ plan[c.user_id]
                             /\ g.user_id = c.user_id
                             /\ g.custom_domain_id = c.id
                   /\ (\E c \in custom_domains :
                          c.domain = get_email_domain_part(a) /\ ~c.catch_all)
                        => /\ aliases' = aliases
                           /\ ss'[s].pc = "done" /\ ss'[s].status = "510"
                           /\ ss'[s].notifs = ss[s].notifs

\* C28: aliases come out of the catch-all path only for a registered custom
\* domain with catch-all enabled and an entitled owner, bound to the domain,
\* owned by its owner and marked auto-created; without catch-all the
\* recipient is answered 510, with no alias and no notice.
C28_CatchAllProvisioning ==
    [][C28_StepCatchAll]_vars

\* C28 witness: an envelope to a catch-all domain got its alias, one to a
\* custom domain without catch-all was answered 510 without a notice
C28_Witness ==
    \E s, u \in Received :
        /\ Done(s) /\ Done(u)
        /\ ss[s].rcpt_tos[1] = <<"any", "@", "dom.ex">>
        /\ "alias" \in ss[s].created
        /\ ss[s].gen_email \in aliases
        /\ ss[u].rcpt_tos[1] = <<"any", "@", "off.ex">>
        /\ ss[u].status = "510" /\ ss[u].notifs = <<>>

\* C29, in every step: the step of a forward that finds the mapping of its
\* alias and correspondent leaves every mapping as it is, except that the
\* mapping found gets the From header of the message as its display value
\* when the two differ; no mapping is added.
C29_StepUpdatesDisplayOnly ==
    \A s \in Sessions :
        StepAt(s, "f_map") =>
            LET from == ss[s].msg["From"]
            IN \A m \in mappings :
                 (m.gen_email_id = ss[s].gen_email.id
                    /\ m.website_email = get_email_part(from))
                   => IF m.website_from = from
                      THEN mappings' = mappings
                      ELSE \E n \in mappings' :
                             /\ n.id = m.id
                             /\ n.reply_email = m.reply_email
                             /\ n.website_email = m.website_email
                             /\ n.gen_email_id = m.gen_email_id
                             /\ n.website_from = from
                             /\ mappings' \ {n} = mappings \ {m}

\* C29: a forward that finds its mapping changes nothing of it but the
\* display value, and nothing at all when the display value is the From
\* header; it creates no mapping.
C29_DisplayValueOnly ==
    [][C29_StepUpdatesDisplayOnly]_vars

\* C29 witness: one mapping, rewritten by a second envelope of the same
\* correspondent and used unchanged by a third
C29_Witness ==
    \E s, u, v \in ForwardedOk :
        /\ Pos(s) < Pos(u) /\ Pos(u) < Pos(v)
        /\ "mapping" \in ss[s].created
        /\ "website_from" \in ss[u].created
        /\ ss[v].created = {}
        /\ ss[u].forward_email.id = ss[s].forward_email.id
        /\ ss[v].forward_email = ss[u].forward_email
        /\ Cardinality(mappings) = 1

\* the replies that passed the checks of the alias's domain and of the sender
AuthorizedReplies ==
    {s \in Received : /\ ss[s].pipeline = "reply"
                      /\ ss[s].pc \in {"r_send", "r_commit", "done"}
                      /\ ss[s].gen_email # NoRow
                      /\ ss[s].status # "550"
                      /\ ss[s].err \notin {"KeyError"}}

\* the domain is a service domain or a custom domain registered as verified
\* for signing
SigningDomain(d) ==
    \/ d \in ALIAS_DOMAINS
    \/ \E c \in CustomDomains : c.domain = d /\ c.dkim_verified

\* a reply that was handed to the transport was signed for the alias's domain
\* when that domain is a service domain or a verified custom domain, and not
\* signed at all otherwise
C30_SignerDecision ==
    \A s \in AuthorizedReplies :
        LET d == get_email_domain_part(ss[s].gen_email.email)
        IN ss[s].sent # <<>>
             => ss[s].signed = IF SigningDomain(d) THEN <<d>> ELSE <<>>

\* the signing step of a reply found the record of the alias's custom domain
C30_RecordPresent ==
    \A s \in AuthorizedReplies : ss[s].err # "AttributeError"

\* C30: an authorized reply is signed for the alias's domain exactly when the
\* domain is a service domain or a custom domain verified for signing, is sent
\* unsigned for an unverified custom domain, and its signing step always finds
\* the record of a custom domain, also when the record is removed after the
\* check of the alias's domain.
C30_SigningStep ==
    C30_SignerDecision /\ C30_RecordPresent

\* a reply for an alias on an unverified custom domain was handed to the
\* transport without a signature
C30_UnsignedReply ==
    \E s \in AuthorizedReplies :
        /\ ss[s].sent # <<>>
        /\ ss[s].signed = <<>>
        /\ ss[s].gen_email.email = <<"a", "@", "off.ex">>

\* a reply for an alias on a verified custom domain was signed for the domain
C30_SignedReply ==
    \E s \in AuthorizedReplies :
        /\ ss[s].sent # <<>>
        /\ ss[s].signed = <<<<"dom.ex">>>>

\* the replies that have ended, came from the mailbox of a recognized alias
\* and carried a From and a To header
EndedAuthorizedReplies ==
    {s \in ResolvedReplies :
        /\ Done(s)
        /\ AliasRecognized(ss[s].gen_email.email)
        /\ SameIgnoringCase(ss[s].mail_from, MailboxEmail(ss[s].gen_email))
        /\ {"From", "To"} \subseteq DOMAIN ss[s].content}

\* the reply went out: one transport call from the alias to the correspondent
\* with the rewritten message, status 250, and one log row of the mapping
\* with is_reply set and blocked not set
RepliedAndLogged(s) ==
    LET r == ss[s]
    IN /\ r.status = "250"
       /\ Len(r.sent) = 1
       /\ r.sent[1].mail_from = r.gen_email.email
       /\ r.sent[1].rcpt_to = r.forward_email.website_email
       /\ r.sent[1].msg["From"] = Val(<<>>, r.gen_email.email)
       /\ r.sent[1].msg["To"] = Val(<<>>, r.forward_email.website_email)
       /\ Cardinality(LogsBy(s)) = 1
       /\ \A i \in LogsBy(s) :
            /\ logs[i].forward_id = r.forward_email.id
            /\ logs[i].is_reply
            /\ ~logs[i].blocked

\* C31: the outcome of an authorized reply does not depend on the enabled
\* flag of the alias: through a disabled alias as through an enabled one the
\* reply is rewritten, sent to the correspondent and logged with is_reply set
\* and blocked not set, unless the transport call fails.
C31_ReplyIgnoresEnabled ==
    \A s \in EndedAuthorizedReplies :
        \/ RepliedAndLogged(s)
        \/ ss[s].err = "SMTPException" /\ ss[s].sent = <<>> /\ LogsBy(s) = {}

\* C31 witness: a forward through a disabled alias was blocked, and the reply
\* of the alias's mailbox to its mapping was sent and logged
C31_Witness ==
    \E s \in EndedAuthorizedReplies :
        /\ ~ss[s].gen_email.enabled
        /\ RepliedAndLogged(s)
        /\ \E i \in 1..Len(logs) :
             logs[i].blocked /\ logs[i].forward_id = ss[s].forward_email.id

\* the replies that have ended and came from the mailbox of a recognized
\* alias, whatever headers their message carried
EndedRepliesOfMailbox ==
    {s \in ResolvedReplies :
        /\ Done(s)
        /\ AliasRecognized(ss[s].gen_email.email)
        /\ SameIgnoringCase(ss[s].mail_from, MailboxEmail(ss[s].gen_email))}

\* C32: every authorized reply, also one whose message has no To header or no
\* From header, is handed to the transport with From set to the alias and To
\* set to the correspondent of the mapping, and is answered 250, unless the
\* transport call itself fails.
C32_ReplyHeadersSet ==
    \A s \in EndedRepliesOfMailbox :
        LET r == ss[s]
        IN \/ r.err = "SMTPException"
           \/ /\ r.status = "250"
              /\ Len(r.sent) = 1
              /\ r.sent[1].msg["From"] = Val(<<>>, r.gen_email.email)
              /\ r.sent[1].msg["To"] = Val(<<>>, r.forward_email.website_email)

\* the same for the replies whose message carries both headers
C32_ReplyHeadersSetWhenPresent ==
    \A s \in EndedRepliesOfMailbox :
        LET r == ss[s]
        IN {"From", "To"} \subseteq DOMAIN r.content
             => \/ r.err = "SMTPException"
                \/ /\ r.status = "250"
                   /\ Len(r.sent) = 1
                   /\ r.sent[1].msg["From"] = Val(<<>>, r.gen_email.email)
                   /\ r.sent[1].msg["To"] = Val(<<>>, r.forward_email.website_email)

\* C33, in every state: the first recipient alone, lower-cased, decides the
\* pipeline, the alias and the mapping the envelope uses, the one transport
\* call it makes at most, and its status.
C33_FirstDecides ==
    \A s \in Received :
        LET r == ss[s]
            a == Lower(r.rcpt_tos[1])
        IN /\ Len(r.sent) <= 1
           /\ (r.pipeline = "reply") <=> HasReplyPrefix(s)
           /\ (r.pipeline = "forward" /\ r.gen_email # NoRow)
                => r.gen_email.email = a
           /\ (r.pipeline = "reply" /\ r.forward_email # NoRow)
                => r.forward_email.reply_email = a
           /\ (r.gen_email # NoRow /\ r.forward_email # NoRow)
                => r.forward_email.gen_email_id = r.gen_email.id
           /\ r.sent # <<>>
                => r.sent[1].rcpt_to = IF r.pipeline = "forward"
                                       THEN MailboxEmail(r.gen_email)
                                       ELSE r.forward_email.website_email
           /\ (Done(s) /\ r.pipeline = "forward" /\ UnknownAddress(a))
                => r.status = "510" /\ r.sent = <<>>
           /\ (Done(s) /\ r.pipeline = "forward" /\ r.status = "510")
                => ~\E g \in aliases : g.email = a
           /\ (Done(s) /\ r.pipeline = "reply"
                 /\ ~\E m \in mappings : m.reply_email = a)
                => r.status = "550" /\ r.sent = <<>>

\* C33, in every step: a row an envelope creates is the alias of its first
\* recipient or a mapping of that alias.
C33_StepCreatesForFirst ==
    \A s \in Sessions :
        ss'[s] # ss[s] =>
            /\ \A g \in aliases' \ aliases : g.email = Lower(ss'[s].rcpt_tos[1])
            /\ \A m \in mappings' \ mappings :
                 \E g \in aliases :
                    g.id = m.gen_email_id /\ g.email = Lower(ss[s].rcpt_tos[1])

\* C33: of an envelope with more than one recipient only the first, lower-
\* cased, is classified and processed: one transport call at most, nothing
\* looked up, created or delivered for the others, and the status is that of
\* the first.
C33_FirstRecipientOnly ==
    []C33_FirstDecides /\ [][C33_StepCreatesForFirst]_vars

\* C33 witness: an envelope to an alias and an unknown address was delivered
\* to the alias's mailbox, one to an unknown address and an alias was answered
\* 510, and one to an alias and a reply token went the forward way
C33_Witness ==
    \E s, u, v \in Received :
        /\ Done(s) /\ Done(u) /\ Done(v)
        /\ ss[s].rcpt_tos = <<<<"shop", "@", "sl.co">>, <<"nobody", "@", "sl.co">>>>
        /\ ss[s].status = "250" /\ Len(ss[s].sent) = 1
        /\ ss[u].rcpt_tos = <<<<"nobody", "@", "sl.co">>, <<"shop", "@", "sl.co">>>>
        /\ ss[u].status = "510" /\ ss[u].sent = <<>>
        /\ ss[v].rcpt_tos = <<<<"shop", "@", "sl.co">>, ForwardToken("1")>>
        /\ ss[v].pipeline = "forward" /\ ss[v].status = "250"

\* C34: no log row is both a reply and blocked, and so the counters of the
\* dashboard's activity page split the log of every alias: total =
\* email_forwarded + email_replied + email_blocked.
C34_CountersPartition ==
    /\ \A i \in 1..Len(logs) : ~(logs[i].is_reply /\ logs[i].blocked)
    /\ \A g \in aliases :
         total(g) = email_forwarded(g) + email_replied(g) + email_blocked(g)

\* C34 witness: one alias has a blocked row and a reply row, another a
\* forwarded row
C34_Witness ==
    \E g, h \in aliases :
        /\ email_blocked(g) = 1 /\ email_replied(g) = 1 /\ total(g) = 2
        /\ email_forwarded(h) = 1 /\ total(h) = 1

\* in this step session s receives a reply envelope addressed to the token of
\* the mapping the dashboard has deleted
ReceivesReplyToDeleted(s) ==
    /\ dash.result = "deleted"
    /\ ss[s].pc = "idle"
    /\ ss'[s].pipeline = "reply"
    /\ Lower(ss'[s].rcpt_tos[1]) = dash.forward_email.reply_email

\* the reply is answered "550" at once, with nothing sent and nothing stored
RejectedAtOnce(s) ==
    /\ ss'[s].pc = "done" /\ ss'[s].status = "550"
    /\ ss'[s].sent = <<>> /\ ss'[s].notifs = <<>>
    /\ ss'[s].forward_email = NoRow
    /\ stores' = stores

\* in every step: the dashboard removes a mapping only on the request of the
\* user who owns the alias of the page, and only a mapping of that alias;
\* the relay removes none
C35_StepDeletesOwn ==
    \A m \in mappings :
        (~\E n \in mappings' : n.id = m.id)
            => /\ dash.pc = "idle" /\ dash'.result = "deleted"
               /\ dash'.forward_email = m
               /\ dash'.gen_email.user_id = dash'.user
               /\ m.gen_email_id = dash'.gen_email.id

\* in every step: a forward from the correspondent of the deleted mapping to
\* its alias that finds no mapping of the two goes on to draw a token, and a
\* mapping the relay adds is a new row: its id was never used and its token
\* is the one the token loop of that envelope drew
C35_StepCreatesAnew ==
    \A s \in Sessions :
        /\ (StepAt(s, "f_map") /\ dash.result = "deleted"
              /\ ss[s].gen_email.id = dash.forward_email.gen_email_id
              /\ get_email_part(ss[s].msg["From"]) = dash.forward_email.website_email
              /\ ~\E m \in mappings :
                    /\ m.gen_email_id = dash.forward_email.gen_email_id
                    /\ m.website_email = dash.forward_email.website_email)
             => ss'[s].pc = "f_token" /\ mappings' = mappings
        /\ (ss'[s] # ss[s] /\ dash.result = "deleted")
             => \A n \in mappings' :
                  (~\E m \in mappings : m.id = n.id)
                     => /\ n.id > dash.forward_email.id
                        /\ n # dash.forward_email
                        /\ n.reply_email = ss[s].reply_email

C35_StepRejectsUntilReissued ==
    \A s \in Sessions :
        (ReceivesReplyToDeleted(s)
            /\ ~\E m \in mappings : m.reply_email = dash.forward_email.reply_email)
           => RejectedAtOnce(s)

====
